---- MODULE Spec2Model ----
(***************************************************************************)
(* A model of tacho's metrics registry: Scopes build Keys, Scope.counter / *)
(* gauge / stat look up or create reference-counted cells in the registry  *)
(* (src/src/lib.rs), Counter / Gauge / Stat handles write to their cell,   *)
(* and the Reporter produces peek() views and take() reports of the three  *)
(* registry maps (src/src/report.rs).                                      *)
(*                                                                         *)
(* Cells are heap objects with identity (Arc<AtomicUsize>,                 *)
(* Arc<Mutex<HistogramWithSum>>): the registry maps and the handles hold   *)
(* references to them, and a cell is deallocated when its last reference   *)
(* goes away.  The maps are insertion-ordered (OrderMap) and are modelled  *)
(* as sequences of entries.  Labels are a BTreeMap and are modelled as a   *)
(* sequence of <<label, value>> pairs kept sorted by label.                *)
(***************************************************************************)
EXTENDS Integers, Sequences, FiniteSets, TLC

VARIABLES
    scopes,     \* the Scope values held by the application, by slot
    applied,    \* history: the <<label, value>> pairs applied to each Scope, in order
    heap,       \* cell id -> cell contents, or NoCell when not allocated
    counters,   \* Registry.counters: sequence of [key, cell]
    gauges,     \* Registry.gauges
    stats,      \* Registry.stats
    handles,    \* handle slot -> the Counter / Gauge / Stat held there, or NoHandle
    views,      \* number of live ReportPeek views (each holds the maps' read locks)
    view,       \* what the last peek() showed
    pc,         \* where Reporter.take is: "idle", "gauges" or "stats"
    report,     \* the part of the ReportTake that the last step of take() filled
    crashed,    \* a write went through a reference to a deallocated cell
    status,     \* history: per kind, what happened since take() last visited its map
    held,       \* history: <<kind, key>> held by a handle at or since take()'s last visit
    lastSet,    \* history: <<gauge key, v>> when set(v) was the last write to the key
    quiet,      \* history: peek() calls since the last change to a map or cell
    factory,    \* the RecorderFactory (and its Sender) exists
    recorders,  \* recorder slot -> [live, sample]
    queue,      \* the unbounded mpsc queue of Samples
    rx,         \* the UnboundedReceiver: "open", or "closed" once it is dropped
    aggPc,      \* the Aggregator: "idle", "polling", "done" or "dropped"
    merged,     \* samples merged by the current (or the last) Aggregator::poll
    woken,      \* the Aggregator's task is notified: the executor will poll it
    lock,       \* the BiLock<Report>: "free", "agg" or "reporter"
    chanReport, \* the Report behind the BiLock
    beats,      \* the heartbeat task's tick, modulo 2
    printed,    \* what the reporter printed and has not reset yet, if anything
    legacy,     \* the synchronous Metrics store and the Counter and Gauge in hand
    timing,     \* a Duration and what elapsed_us() and elapsed_ms() returned for it
    panicked,   \* a panic reached the application
    sent        \* history of what was passed to the Recorders and to the queue

vars == <<scopes, applied, heap, counters, gauges, stats, handles, views, view,
          pc, report, crashed, status, held, lastSet, quiet,
          factory, recorders, queue, rx, aggPc, merged, woken, lock, chanReport,
          beats, legacy, timing, printed, panicked, sent>>

\* The variables of the channel-based variant (recorder.rs, aggregator.rs);
\* with those of the synchronous store and of the timing conversions, the
\* variables that the registry variant leaves alone; and the variables of
\* the registry variant (lib.rs, report.rs).
pipeline == <<factory, recorders, queue, rx, aggPc, merged, woken, lock,
              chanReport, beats, printed, panicked, sent>>
channel == <<pipeline, legacy, timing>>
direct == <<scopes, applied, heap, counters, gauges, stats, handles, views, view,
            pc, report, crashed, status, held, lastSet, quiet>>

\* The variables of the registry and its handles, and the history variables.
registry == <<heap, counters, gauges, stats, handles>>
history == <<status, held, lastSet, quiet>>

(***************************************************************************)
(* Bounds of the model and input domains.                                  *)
(***************************************************************************)
MaxHandles == 2
MaxViews == 1
MaxCount == 2
MaxRecords == 1
MaxLabelOps == 2
MaxStatValues == 6
MaxQueue == 3
MaxClones == 1
max_batch_size == 2
WordBits == 4

MaxRecorders == 2
MaxPrefix == 2
TimingBits == 26
UsPerSec == 1000000
NanosPerUs == 1000
MsPerSec == 1000
NanosPerMs == 1000000
HandleIds == 1..MaxHandles
RecorderIds == 1..MaxRecorders
ScopeIds == {1, 2}
Names == {"x", "y"}
LabelNames == {1, 2}
LabelValues == {"a", "b"}
IncrValues == {1, 2}
GaugeValues == {1, 2}
StatLists == {<<1, 2, 3>>, <<2>>}
Deltas == {1}
Levels == {1, 2}
Timings == {3}
Segments == {"t"}
BoundsPairs == {<<1, 2>>, <<0, 0>>, <<2, 3>>}
DrainedKinds == {"gauge", "stat"}
Kinds == {"counter", "gauge", "stat"}

\* usize / u64 arithmetic is modular; the word is scaled down to WordBits bits.
Modulus == 2 ^ WordBits
WordMax == Modulus - 1
SumLists == {<<WordMax \div 2>>, <<WordMax \div 2 + 1, 1>>}

(***************************************************************************)
(* Keys and Scopes (lib.rs).                                               *)
(***************************************************************************)
\* BTreeMap::insert as a Vec::push would do it: the entry goes last.
PushInsert(labels, k, v) ==
    SelectSeq(labels, LAMBDA e : e[1] # k) \o << <<k, v>> >>

\* BTreeMap::entry(k).or_insert(v): a label that is set keeps its value.
InsertIfAbsent(labels, k, v) ==
    IF \E i \in 1..Len(labels) : labels[i][1] = k
    THEN labels
    ELSE SelectSeq(labels, LAMBDA e : e[1] < k) \o << <<k, v>> >>
             \o SelectSeq(labels, LAMBDA e : e[1] > k)

\* BTreeMap::insert: the entry replaces the one with an equal label, and the
\* entries stay ordered by label.
BTreeInsert(labels, k, v) ==
    SelectSeq(labels, LAMBDA e : e[1] < k) \o << <<k, v>> >>
        \o SelectSeq(labels, LAMBDA e : e[1] > k)

\* Prefix::Root, and Prefix::Node { prefix, value }: a path of segments, each
\* Node holding the Node before it.
PrefixRoot == << >>
PrefixNode(prefix, value) == <<prefix, value>>

RootScope == [labels |-> << >>, prefix |-> PrefixRoot]

\* Scope::labeled
Labeled(scope, k, v) == [scope EXCEPT !.labels = BTreeInsert(@, k, v)]

\* Scope::prefixed
Prefixed(scope, value) == [scope EXCEPT !.prefix = PrefixNode(@, value)]

\* A method that takes &mut self: the Scope it was called on changes too.
DerivedInPlace(scs, s, t, child) == [scs EXCEPT ![s] = child, ![t] = child]

\* let t = s.clone().labeled(..) or s.clone().prefixed(..): the methods take
\* self by value and return it, so that the child is bound to t and nothing
\* else is.
Derived(scs, s, t, child) == [scs EXCEPT ![t] = child]

\* Key::new(name, self.prefix.clone(), self.labels.clone())
KeyNew(name, scope) ==
    [name |-> name, prefix |-> scope.prefix, labels |-> scope.labels]

(***************************************************************************)
(* Cells, maps and reference counts.                                       *)
(***************************************************************************)
\* A cell holds val (AtomicUsize) or histogram and sum (HistogramWithSum);
\* incrs is history: the sum of the Counter::incr arguments applied to it.
NoCell == [kind |-> "free", val |-> 0, histogram |-> << >>, sum |-> 0, incrs |-> 0,
           limit |-> 0, owner |-> 0, pending |-> << >>, half |-> FALSE]
NoHandle == [kind |-> "none", cell |-> 0, key |-> KeyNew("", RootScope),
             bounds |-> << >>]
NoReport == [kind |-> "none", counters |-> << >>, gauges |-> << >>, stats |-> << >>]

\* Arc::new(AtomicUsize::new(0))
NewAtomic == [NoCell EXCEPT !.kind = "atomic"]

\* HistogramWithSum::new(None): Histogram::new makes a histogram that
\* resizes itself; limit 0 stands for no limit.
HistogramWithSumNew == [NoCell EXCEPT !.kind = "histo"]

\* Histogram::new_with_bounds(l, h, ..) is Ok: low is at least 1 and high at
\* least twice low.
ValidBounds(low, high) == low >= 1 /\ high >= 2 * low

\* HistogramWithSum::new(Some((l, h))) with bounds that are accepted: the
\* histogram does not resize; `limit` is the highest value that it tracks
\* (high, at the scale of the model).
HistogramWithSumBounded(low, high) ==
    [NoCell EXCEPT !.kind = "histo", !.limit = high]

\* The cell ids: enough for every key of every kind plus every detached cell.
CellIds == 1..(3 * Cardinality(Names) + MaxHandles)

Range(seq) == {seq[i] : i \in 1..Len(seq)}
MapKeys(map) == {e.key : e \in Range(map)}
MapCells(map) == {e.cell : e \in Range(map)}

\* OrderMap::get: the cell of `key`, or 0 when the key is absent.
MapGet(map, key) ==
    IF key \in MapKeys(map)
    THEN (CHOOSE e \in Range(map) : e.key = key).cell
    ELSE 0

\* An insert that puts the new entry first.
InsertFirst(map, key, cell) == <<[key |-> key, cell |-> cell]>> \o map

\* OrderMap::insert of a key that is absent.
MapInsert(map, key, cell) == Append(map, [key |-> key, cell |-> cell])

\* A count that leaves out the references the handles hold.
RegistryCount(c, cs, gs, ss, hs) ==
    Cardinality({i \in 1..Len(cs) : cs[i].cell = c})
        + Cardinality({i \in 1..Len(gs) : gs[i].cell = c})
        + Cardinality({i \in 1..Len(ss) : ss[i].cell = c})

\* A count that leaves out the references the maps hold.
HandleCount(c, cs, gs, ss, hs) ==
    Cardinality({h \in HandleIds : hs[h].kind # "none" /\ hs[h].cell = c})

\* Arc::strong_count: the references the maps and the handles hold to cell c.
StrongCount(c, cs, gs, ss, hs) ==
    Cardinality({i \in 1..Len(cs) : cs[i].cell = c})
        + Cardinality({i \in 1..Len(gs) : gs[i].cell = c})
        + Cardinality({i \in 1..Len(ss) : ss[i].cell = c})
        + Cardinality({h \in HandleIds : hs[h].kind # "none" /\ hs[h].cell = c})

\* Dropping the last Arc deallocates the cell.
Reclaim(hp, cs, gs, ss, hs) ==
    [c \in CellIds |->
        IF StrongCount(c, cs, gs, ss, hs) = 0 THEN NoCell ELSE hp[c]]

FreeCells == {c \in CellIds : heap[c].kind = "free"}
FreeHandles == {h \in HandleIds : handles[h].kind = "none"}
NewCell == CHOOSE c \in FreeCells : \A d \in FreeCells : c <= d

(***************************************************************************)
(* Addresses are not observable, so the cells are kept numbered in the     *)
(* order in which the maps and then the handles reference them.            *)
(***************************************************************************)
Refs(cs, gs, ss, hs) ==
    [i \in 1..Len(cs) |-> cs[i].cell] \o [i \in 1..Len(gs) |-> gs[i].cell]
        \o [i \in 1..Len(ss) |-> ss[i].cell] \o [h \in HandleIds |-> hs[h].cell]

Rank(c, refs) ==
    LET first == CHOOSE i \in 1..Len(refs) :
                     refs[i] = c /\ \A j \in 1..(i - 1) : refs[j] # c
    IN  Cardinality({refs[j] : j \in 1..first} \ {0})

\* The maps, handles and heap after an action made them cs, gs, ss, hs and
\* hp: cells without a reference are deallocated, the others renumbered.
Commit(hp, cs, gs, ss, hs) ==
    LET live == Reclaim(hp, cs, gs, ss, hs)
        refs == Refs(cs, gs, ss, hs)
        used == Range(refs) \ {0}
        To(c) == IF c = 0 THEN 0 ELSE Rank(c, refs)
        Re(map) == [i \in 1..Len(map) |-> [map[i] EXCEPT !.cell = To(@)]]
    IN  /\ heap' = [n \in CellIds |->
                       IF \E c \in used : To(c) = n
                       THEN live[CHOOSE c \in used : To(c) = n]
                       ELSE NoCell]
        /\ counters' = Re(cs)
        /\ gauges' = Re(gs)
        /\ stats' = Re(ss)
        /\ handles' = [h \in HandleIds |-> [hs[h] EXCEPT !.cell = To(@)]]

(***************************************************************************)
(* Cell arithmetic (lib.rs).                                               *)
(***************************************************************************)
\* AtomicUsize::store in place of fetch_add: the old value is lost.
StoreAdd(old, v) == v % Modulus

\* AtomicUsize::fetch_add: one atomic read-modify-write, wrapping.
FetchAdd(old, v) == (old + v) % Modulus

\* AtomicUsize::fetch_sub: one atomic read-modify-write, wrapping.
FetchSub(old, v) == (old + Modulus - (v % Modulus)) % Modulus

\* AtomicUsize::store
Store(old, v) == v % Modulus

\* A record that keeps the last value as the sum.
RecordLast(cell, v) == [cell EXCEPT !.histogram = Append(@, v), !.sum = v]

\* Histogram::record(v) is Ok: the histogram resizes itself or tracks v.
Recordable(cell, v) == cell.limit = 0 \/ v <= cell.limit

\* A sum that wraps around.
RecordWrapping(cell, v) ==
    [cell EXCEPT !.histogram = IF Recordable(cell, v) THEN Append(@, v) ELSE @,
                 !.sum = (@ + v) % Modulus]

\* HistogramWithSum::record, first statement: self.histogram.record(v), an
\* Err of which is logged.
RecordHistogram(cell, v) ==
    [cell EXCEPT !.histogram = IF Recordable(cell, v) THEN Append(@, v) ELSE @]

\* HistogramWithSum::record, second statement: v is added to sum, whether
\* it was recorded or not.
RecordSum(cell, v) ==
    [cell EXCEPT !.sum = IF v >= WordMax - @ THEN WordMax ELSE @ + v]

\* HistogramWithSum::record
Record(cell, v) == RecordSum(RecordHistogram(cell, v), v)

\* A reader that does not take the lock of the cell.
ReadUnlocked(cell) == TRUE

\* The lock of the cell (Mutex<HistogramWithSum>) can be taken.
Unlocked(cell) == cell.owner = 0

\* for v in vs { histo.record(*v) }
RECURSIVE RecordAll(_, _)
RecordAll(cell, vs) ==
    IF vs = << >> THEN cell ELSE RecordAll(Record(cell, Head(vs)), Tail(vs))

\* HistogramWithSum::count, min, max and sum.  An empty histogram has min and
\* max 0; the values of the model are small enough to be tracked exactly.
HistoCount(cell) == Len(cell.histogram)
HistoMin(cell) ==
    IF cell.histogram = << >> THEN 0
    ELSE CHOOSE v \in Range(cell.histogram) : \A w \in Range(cell.histogram) : v <= w
HistoMax(cell) ==
    IF cell.histogram = << >> THEN 0
    ELSE CHOOSE v \in Range(cell.histogram) : \A w \in Range(cell.histogram) : v >= w
HistoSum(cell) == cell.sum

(***************************************************************************)
(* Lookup-or-create under the registry lock (Scope::counter, Scope::gauge, *)
(* Scope::mk_stat).                                                        *)
(***************************************************************************)
\* Insert without the lookup.
AlwaysCreate(map, key, c) == [map |-> MapInsert(map, key, c), cell |-> c]

\* if let Some(c) = map.get(&key) { return c.clone() } ... map.insert(key, c)
LookupOrCreate(map, key, c) ==
    IF key \in MapKeys(map)
    THEN [map |-> map, cell |-> MapGet(map, key)]
    ELSE [map |-> MapInsert(map, key, c), cell |-> c]

(***************************************************************************)
(* Snapshots (report.rs).                                                  *)
(***************************************************************************)
\* for (k, v) in map.iter() { snap.insert(k.clone(), *v) }
SnapValues(map, hp) ==
    [i \in 1..Len(map) |-> [key |-> map[i].key, val |-> hp[map[i].cell].val]]

SnapStats(map, hp) ==
    [i \in 1..Len(map) |->
        [key |-> map[i].key,
         histogram |-> hp[map[i].cell].histogram,
         sum |-> hp[map[i].cell].sum]]

\* A take() that drains the counters the way it drains gauges and stats.
CountersDrained(map) == << >>

\* take(): the counters map after the copy (orig.iter(): nothing is removed).
CountersAfterTake(map) == map

\* A take() that copies the gauges and stats the way it copies the counters.
NotDrained(map) == map

\* take(): the gauges map, and the stats map, after orig.drain().
AfterDrain(map) == << >>

(***************************************************************************)
(* The channel-based variant: Samples and the Report (recorder.rs,         *)
(* aggregator.rs).  One key of each kind is used.                          *)
(***************************************************************************)
\* Sample::default(); c and g hold at most one value, s the values of the stat.
SampleDefault == [c |-> << >>, g |-> << >>, s |-> << >>]

\* Report::new()
ReportNew == [c |-> << >>, g |-> << >>, s |-> << >>]

NoRecorder == [live |-> FALSE, sample |-> SampleDefault]
\* What the application has done so far: the deltas given to incr, the calls
\* of add and of clone, the counter total, last gauge and stat values of the
\* Samples queued, and whether a send has failed.
NothingSent == [deltas |-> 0, adds |-> 0, clones |-> 0, counter |-> 0,
                gauge |-> << >>, stats |-> << >>, lost |-> FALSE]

InitChannel ==
    /\ factory = TRUE
    /\ recorders = [r \in RecorderIds |-> NoRecorder]
    /\ queue = << >>
    /\ rx = "open"
    /\ aggPc = "idle"
    /\ merged = 0
    /\ woken = TRUE
    /\ lock = "free"
    /\ chanReport = ReportNew
    /\ beats = 0
    /\ printed = << >>
    /\ panicked = FALSE
    /\ sent = NothingSent

(***************************************************************************)
(* Recorder (recorder.rs).                                                 *)
(***************************************************************************)
\* Recorder::incr on the local Sample
SampleIncr(sample, n) ==
    [sample EXCEPT !.c = IF @ = << >> THEN <<n>> ELSE <<@[1] + n>>]

\* Recorder::set on the local Sample
SampleSet(sample, n) == [sample EXCEPT !.g = <<n>>]

\* Recorder::add on the local Sample
SampleAdd(sample, n) == [sample EXCEPT !.s = Append(@, n)]

LiveRecorders == {r \in RecorderIds : recorders[r].live}
FreeRecorders == RecorderIds \ LiveRecorders

\* The Senders of the queue: the factory's and one in every Recorder.
Senders(f, recs) ==
    (IF f THEN 1 ELSE 0) + Cardinality({r \in RecorderIds : recs[r].live})

\* A queue to which a write to a Recorder sends the Sample at once.
SendOnWrite(q, sample) == Append(q, sample)

\* The queue after incr / set / add changed the local Sample to `sample`:
\* nothing is sent.
QueueAfterWrite(q, sample) == q

\* A failed send that is unwrapped.
PanicOnSendError == TRUE

\* if send(..).is_err() { info!("dropping metrics") }: no panic.
SendErrorPanics == FALSE

\* The gauge of the last Sample of `q` that has one, else `default`.
RECURSIVE LastGauge(_, _)
LastGauge(q, default) ==
    IF q = << >> THEN default
    ELSE IF q[Len(q)].g # << >> THEN q[Len(q)].g
    ELSE LastGauge(SubSeq(q, 1, Len(q) - 1), default)

\* The stat values of the Samples of `q`.
RECURSIVE StatsIn(_)
StatsIn(q) == IF q = << >> THEN << >> ELSE Head(q).s \o StatsIn(Tail(q))

\* RecorderFactory::mk
RecorderMk(r) ==
    /\ factory
    /\ ~recorders[r].live
    /\ \A q \in FreeRecorders : r <= q
    /\ recorders' = [recorders EXCEPT ![r] = [live |-> TRUE, sample |-> SampleDefault]]
    /\ UNCHANGED <<factory, queue, rx, aggPc, merged, woken, lock, chanReport,
                   beats, legacy, timing, printed, panicked, sent, direct>>

\* #[derive(Clone)] on Recorder: the Sender and the Sample are cloned.
RecorderClone(r, r2) ==
    /\ recorders[r].live
    /\ ~recorders[r2].live
    /\ \A q \in FreeRecorders : r2 <= q
    /\ sent.clones < MaxClones
    /\ recorders' = [recorders EXCEPT ![r2] = recorders[r]]
    /\ sent' = [sent EXCEPT !.clones = @ + 1]
    /\ UNCHANGED <<factory, queue, rx, aggPc, merged, woken, lock, chanReport,
                   beats, legacy, timing, printed, panicked, direct>>

\* A write to Recorder r that makes its Sample `sample`.
RecorderWrite(r, sample) ==
    /\ recorders[r].live
    /\ recorders' = [recorders EXCEPT ![r].sample = sample]
    /\ queue' = QueueAfterWrite(queue, sample)
    /\ UNCHANGED <<factory, rx, aggPc, merged, woken, lock, chanReport,
                   beats, legacy, timing, printed,
                   panicked, direct>>

RecorderIncr(r, n) ==
    /\ sent.deltas + n <= MaxCount
    /\ RecorderWrite(r, SampleIncr(recorders[r].sample, n))
    /\ sent' = [sent EXCEPT !.deltas = @ + n]

RecorderSet(r, n) ==
    /\ RecorderWrite(r, SampleSet(recorders[r].sample, n))
    /\ UNCHANGED sent

RecorderAdd(r, n) ==
    /\ sent.adds < MaxRecords
    /\ RecorderWrite(r, SampleAdd(recorders[r].sample, n))
    /\ sent' = [sent EXCEPT !.adds = @ + 1]

\* Drop for Recorder: the Sample is sent; a failed send is logged.  The
\* Recorder's Sender goes with it, and the last Sender to go wakes the
\* receiving task, as every send does.
RecorderDrop(r) ==
    LET sample == recorders[r].sample
        left == [recorders EXCEPT ![r] = NoRecorder]
    IN  /\ recorders[r].live
        /\ rx = "open" => Len(queue) < MaxQueue
        /\ recorders' = left
        /\ IF rx = "open"
           THEN /\ queue' = Append(queue, sample)
                /\ woken' = TRUE
                /\ sent' = [sent EXCEPT
                       !.counter = @ + (IF sample.c = << >> THEN 0 ELSE sample.c[1]),
                       !.gauge = IF sample.g = << >> THEN @ ELSE sample.g,
                       !.stats = @ \o sample.s]
                /\ UNCHANGED panicked
           ELSE /\ panicked' = (panicked \/ SendErrorPanics)
                /\ sent' = [sent EXCEPT !.lost = TRUE]
                /\ UNCHANGED <<queue, woken>>
        /\ UNCHANGED <<factory, rx, aggPc, merged, lock, chanReport, beats,
                       legacy, timing, printed,
                       direct>>

\* The RecorderFactory is dropped, and its Sender with it.
FactoryDrop ==
    /\ factory
    /\ factory' = FALSE
    /\ woken' = (woken \/ Senders(FALSE, recorders) = 0)
    /\ UNCHANGED <<recorders, queue, rx, aggPc, merged, lock, chanReport,
                   beats, legacy, timing, printed,
                   panicked, sent, direct>>

(***************************************************************************)
(* Report and Aggregator (aggregator.rs).                                  *)
(***************************************************************************)
\* Report::incr
ReportIncr(rep, v) ==
    [rep EXCEPT !.c = IF @ = << >> THEN <<v>> ELSE <<@[1] + v>>]

\* A gauge that keeps the first value it was given.
KeepFirst(rep, v) == [rep EXCEPT !.g = IF @ = << >> THEN <<v>> ELSE @]

\* Report::set
ReportSet(rep, v) == [rep EXCEPT !.g = <<v>>]

\* Report::add: every value is recorded; the histogram resizes itself
\* (auto(true)), so that no value is refused.
ReportAdd(rep, vs) == [rep EXCEPT !.s = @ \o vs]

\* A reset that starts the Report afresh, counters included.
ResetAll(rep) == ReportNew

\* Report::reset
ReportReset(rep) == [rep EXCEPT !.g = << >>, !.s = << >>]

\* The body of the loop of Aggregator::poll for one Sample.
Merge(rep, sample) ==
    LET r1 == IF sample.c = << >> THEN rep ELSE ReportIncr(rep, sample.c[1])
        r2 == IF sample.g = << >> THEN r1 ELSE ReportSet(r1, sample.g[1])
    IN  IF sample.s = << >> THEN r2 ELSE ReportAdd(r2, sample.s)

\* A loop with no bound.
Unbounded(n) == TRUE

\* for _ in 0..self.max_batch_size
BatchOpen(n) == n < max_batch_size

\* A stream that ends as soon as it is empty.
EndsWhenEmpty(q, senders) == q = << >>

\* UnboundedReceiver::poll is Ready(None): nothing queued, no Sender left.
StreamEnded(q, senders) == q = << >> /\ senders = 0

\* A full batch after which poll starts the loop again.
LoopAgain == "polling"

\* After a full batch poll returns NotReady.
AfterBatch == "idle"

\* The reactor polls the Aggregator's task, which was notified, when it runs
\* no other task.  poll_lock either takes the lock or parks the task on it;
\* the reporter of examples/multithread.rs never holds the lock then.
AggPoll ==
    /\ aggPc = "idle"
    /\ lock # "reporter"
    /\ woken
    /\ woken' = FALSE
    /\ merged' = 0
    /\ IF lock = "free"
       THEN aggPc' = "polling" /\ lock' = "agg"
       ELSE aggPc' = "idle" /\ lock' = "contended"
    /\ UNCHANGED <<factory, recorders, queue, rx, chanReport, beats, legacy,
                   timing, printed, panicked,
                   sent, direct>>

\* The Aggregator is polled while the other half of the BiLock holds the
\* lock: poll_lock() is NotReady, the task is parked on the lock, and poll
\* returns NotReady.
AggPollLocked ==
    /\ aggPc = "idle"
    /\ lock = "reporter"
    /\ woken
    /\ woken' = FALSE
    /\ lock' = "contended"
    /\ UNCHANGED <<factory, recorders, queue, rx, aggPc, merged, chanReport,
                   beats, legacy, timing,
                   printed,
                   panicked, sent, direct>>

\* A poll that returns with the guard of the Report still held.
GuardKept == "agg"

\* The lock when poll returns: `report`, the BiLockGuard, goes out of scope.
GuardDropped == "free"

\* samples.poll() is Ready(Some(s)): s is folded into the Report.
AggMerge ==
    /\ aggPc = "polling"
    /\ BatchOpen(merged)
    /\ queue # << >>
    /\ chanReport' = Merge(chanReport, Head(queue))
    /\ queue' = Tail(queue)
    /\ merged' = merged + 1
    /\ UNCHANGED <<factory, recorders, rx, aggPc, woken, lock, beats, legacy,
                   timing, printed, panicked,
                   sent, direct>>

\* samples.poll() is NotReady: poll returns NotReady and the lock guard is
\* dropped.
AggNotReady ==
    /\ aggPc = "polling"
    /\ BatchOpen(merged)
    /\ queue = << >>
    /\ ~StreamEnded(queue, Senders(factory, recorders))
    /\ aggPc' = "idle"
    /\ lock' = GuardDropped
    /\ UNCHANGED <<factory, recorders, queue, rx, merged, woken, chanReport,
                   beats, legacy, timing, printed, panicked, sent, direct>>

\* samples.poll() is Ready(None): the future completes, and the receiver
\* goes with it.
AggReady ==
    /\ aggPc = "polling"
    /\ BatchOpen(merged)
    /\ StreamEnded(queue, Senders(factory, recorders))
    /\ aggPc' = "done"
    /\ lock' = GuardDropped
    /\ rx' = "closed"
    /\ UNCHANGED <<factory, recorders, queue, merged, woken, chanReport,
                   beats, legacy, timing, printed,
                   panicked, sent, direct>>

\* A poll that yields without notifying its task.
NotNotified == FALSE

\* task::park().unpark(): the task of the Aggregator notifies itself.
SelfNotified == TRUE

\* The loop is over: task::park().unpark(), then NotReady.
AggYield ==
    /\ aggPc = "polling"
    /\ ~BatchOpen(merged)
    /\ aggPc' = AfterBatch
    /\ IF AfterBatch = "idle"
       THEN lock' = GuardDropped /\ woken' = (woken \/ SelfNotified) /\ UNCHANGED merged
       ELSE merged' = 0 /\ UNCHANGED <<lock, woken>>
    /\ UNCHANGED <<factory, recorders, queue, rx, chanReport, beats, legacy,
                   timing, printed, panicked,
                   sent, direct>>

\* The Aggregator is dropped between two polls, and what is queued with it.
AggDrop ==
    /\ aggPc = "idle"
    /\ aggPc' = "dropped"
    /\ rx' = "closed"
    /\ queue' = << >>
    /\ UNCHANGED <<factory, recorders, merged, woken, lock, chanReport,
                   beats, legacy, timing, printed,
                   panicked, sent, direct>>

(***************************************************************************)
(* The other tasks of the reactor (examples/multithread.rs).  The reactor  *)
(* has one thread, so that no task runs while Aggregator::poll does, and   *)
(* it runs until the Aggregator completes: core.run(aggregator).           *)
(***************************************************************************)
\* A reporter that unlocks the Report once it has printed it, and locks it
\* again for the reset.
UnlockedAfterPrint == "free"

\* The lock after print_report(&report): the guard lives on, to report.reset()
\* and report.unlock().
HeldThroughReset == "reporter"

\* The reporter's task runs, takes the lock of the Report and prints it.
ReporterLock ==
    /\ aggPc = "idle"
    /\ lock = "free"
    /\ lock' = HeldThroughReset
    /\ printed' = <<chanReport>>
    /\ UNCHANGED <<factory, recorders, queue, rx, aggPc, merged, woken,
                   chanReport, beats, legacy, timing, panicked, sent, direct>>

\* In the same run the reporter resets the Report and unlocks it, which
\* notifies a task parked on the lock.  Gauges and stats now await what is
\* still queued.
ReporterReset ==
    /\ aggPc = "idle"
    /\ lock \in {"reporter", "contended"}
    /\ chanReport' = ReportReset(chanReport)
    /\ lock' = "free"
    /\ woken' = (woken \/ lock = "contended")
    /\ sent' = [sent EXCEPT !.gauge = LastGauge(queue, << >>),
                            !.stats = StatsIn(queue)]
    /\ printed' = << >>
    /\ UNCHANGED <<factory, recorders, queue, rx, aggPc, merged, beats,
                   legacy, timing, panicked,
                   direct>>

\* The heartbeat task.
Heartbeat ==
    /\ aggPc = "idle"
    /\ lock # "reporter"
    /\ beats' = 1 - beats
    /\ UNCHANGED <<factory, recorders, queue, rx, aggPc, merged, woken, lock,
                   chanReport, printed, legacy, timing, panicked, sent, direct>>

(***************************************************************************)
(* The synchronous store (metrics.rs, counter.rs, gauge.rs).               *)
(***************************************************************************)
\* HashMap::default()
HashMapNew == [n \in {} |-> 0]

\* HashMap::insert
Put(store, k, v) == [n \in DOMAIN store \cup {k} |-> IF n = k THEN v ELSE store[n]]

\* No Counter, or Gauge, in the caller's hands.
NoMetric == [name |-> "", value |-> 0]

\* Metrics::new(), before the caller has made a Counter or a Gauge.
MetricsNew ==
    [counter_store |-> HashMapNew, gauge_store |-> HashMapNew,
     timer_store |-> HashMapNew, counter |-> NoMetric, gauge |-> NoMetric]

\* Counter::fresh, Gauge::fresh
Fresh(metric) == [name |-> metric.name, value |-> 0]

\* Metrics::make_counter
MetricsMakeCounter(name) ==
    /\ legacy' = [legacy EXCEPT
           !.counter_store = IF name \in DOMAIN @ THEN @ ELSE Put(@, name, 0),
           !.counter = [name |-> name, value |-> 0]]
    /\ UNCHANGED <<timing, pipeline, direct>>

\* Metrics::make_timer: the store gets an empty histogram for the name.
MetricsMakeTimer(name) ==
    /\ name \notin DOMAIN legacy.timer_store
    /\ legacy' = [legacy EXCEPT !.timer_store = Put(@, name, 0)]
    /\ UNCHANGED <<timing, pipeline, direct>>

\* Counter::incr
LegacyCounterIncr ==
    /\ legacy.counter # NoMetric
    /\ legacy.counter.value < MaxCount
    /\ legacy' = [legacy EXCEPT !.counter.value = (@ + 1) % Modulus]
    /\ UNCHANGED <<timing, pipeline, direct>>

\* Gauge::new
LegacyGaugeNew(name, value) ==
    /\ legacy' = [legacy EXCEPT !.gauge = [name |-> name, value |-> value]]
    /\ UNCHANGED <<timing, pipeline, direct>>

\* Gauge::set
LegacyGaugeSet(value) ==
    /\ legacy.gauge # NoMetric
    /\ legacy' = [legacy EXCEPT !.gauge.value = value]
    /\ UNCHANGED <<timing, pipeline, direct>>

\* Metrics::report_counter; the caller keeps the Counter it returns.
MetricsReportCounter ==
    LET c == legacy.counter
        store == IF c.name \in DOMAIN legacy.counter_store
                 THEN legacy.counter_store
                 ELSE Put(legacy.counter_store, c.name, 0)
    IN  /\ c # NoMetric
        /\ store[c.name] + c.value <= MaxCount
        /\ legacy' = [legacy EXCEPT
               !.counter_store = Put(store, c.name, (store[c.name] + c.value) % Modulus),
               !.counter = Fresh(c)]
        /\ UNCHANGED <<timing, pipeline, direct>>

\* Metrics::report_gauge: self.counter_store.insert(gauge.name.clone(),
\* gauge.value); the caller keeps the Gauge it returns.
MetricsReportGauge ==
    LET g == legacy.gauge
    IN  /\ g # NoMetric
        /\ legacy' = [legacy EXCEPT
               !.counter_store = Put(@, g.name, g.value),
               !.gauge = Fresh(g)]
        /\ UNCHANGED <<timing, pipeline, direct>>

\* Metrics::clear
MetricsClear ==
    /\ legacy' = [legacy EXCEPT !.counter_store = HashMapNew,
                                !.gauge_store = HashMapNew,
                                !.timer_store = HashMapNew]
    /\ UNCHANGED <<timing, pipeline, direct>>

(***************************************************************************)
(* Timing conversions (timing.rs).  u64 is scaled down to TimingBits bits, *)
(* wide enough for the Duration of test_conversions.                       *)
(***************************************************************************)
TimingModulus == 2 ^ TimingBits

\* The first number of whole seconds whose microseconds do not fit the word.
OverflowSecs == TimingModulus \div UsPerSec + 1

Secs == {0, 1, 54, OverflowSecs - 1, OverflowSecs}
Nanos == {0, 999, 1000, 1999, 321987600, 999999999}

\* No Duration yet.
NoDuration == [secs |-> 0, nanos |-> 0, us |-> << >>, ms |-> << >>]

\* What a u64 expression with the mathematical value v evaluates to: v when
\* it fits; otherwise a panic in a build with overflow checks, and v modulo
\* the word in a build without.
U64(v) ==
    IF v < TimingModulus
    THEN {[panic |-> FALSE, value |-> v]}
    ELSE {[panic |-> TRUE, value |-> 0], [panic |-> FALSE, value |-> v % TimingModulus]}

\* A division that rounds to the nearest.
Rounded(a, b) == (a + b \div 2) \div b

\* u64 / u64
Truncated(a, b) == a \div b

\* Duration::new(secs, nanos), nanos below one second.
DurationNew(secs, nanos) ==
    /\ timing' = [NoDuration EXCEPT !.secs = secs, !.nanos = nanos]
    /\ UNCHANGED <<legacy, pipeline, direct>>

\* elapsed_us: self.as_secs() as u64 * 1_000_000
\*                 + u64::from(self.subsec_nanos()) / 1_000
ElapsedUs ==
    /\ timing.us = << >>
    /\ \E r \in U64(timing.secs * UsPerSec + Truncated(timing.nanos, NanosPerUs)) :
           timing' = [timing EXCEPT !.us = <<r>>]
    /\ UNCHANGED <<legacy, pipeline, direct>>

\* elapsed_ms: self.as_secs() as u64 * 1_000
\*                 + u64::from(self.subsec_nanos()) / 1_000_000
ElapsedMs ==
    /\ timing.ms = << >>
    /\ \E r \in U64(timing.secs * MsPerSec + Truncated(timing.nanos, NanosPerMs)) :
           timing' = [timing EXCEPT !.ms = <<r>>]
    /\ UNCHANGED <<legacy, pipeline, direct>>

(***************************************************************************)
(* Initial state: tacho::new().                                            *)
(***************************************************************************)
Init ==
    /\ scopes = [s \in ScopeIds |-> RootScope]
    /\ applied = [s \in ScopeIds |-> << >>]
    /\ heap = [c \in CellIds |-> NoCell]
    /\ counters = << >>
    /\ gauges = << >>
    /\ stats = << >>
    /\ handles = [h \in HandleIds |-> NoHandle]
    /\ views = 0
    /\ view = NoReport
    /\ pc = "idle"
    /\ report = NoReport
    /\ crashed = FALSE
    /\ status = [k \in DrainedKinds |-> "clean"]
    /\ held = {}
    /\ lastSet = {}
    /\ quiet = 0
    /\ InitChannel
    /\ legacy = MetricsNew
    /\ timing = NoDuration

(***************************************************************************)
(* Scope operations.                                                       *)
(***************************************************************************)
ScopeLabeled(s, k, v) ==
    /\ Len(applied[s]) < MaxLabelOps
    /\ scopes' = [scopes EXCEPT ![s] = Labeled(@, k, v)]
    /\ applied' = [applied EXCEPT ![s] = Append(@, <<k, v>>)]
    /\ report' = NoReport
    /\ UNCHANGED <<registry, views, view, pc, crashed, history, channel>>

\* scopes[t] = scopes[s].clone().labeled(k, v)
ScopeCloneLabeled(s, t, k, v) ==
    /\ Len(applied[s]) < MaxLabelOps
    /\ scopes' = Derived(scopes, s, t, Labeled(scopes[s], k, v))
    /\ applied' = [applied EXCEPT ![t] = Append(applied[s], <<k, v>>)]
    /\ report' = NoReport
    /\ UNCHANGED <<registry, views, view, pc, crashed, history, channel>>

RECURSIVE PrefixLen(_)
PrefixLen(prefix) == IF prefix = PrefixRoot THEN 0 ELSE 1 + PrefixLen(prefix[1])

\* scopes[t] = scopes[s].clone().prefixed(value)
ScopeClonePrefixed(s, t, value) ==
    /\ PrefixLen(scopes[s].prefix) < MaxPrefix
    /\ scopes' = Derived(scopes, s, t, Prefixed(scopes[s], value))
    /\ applied' = [applied EXCEPT ![t] = applied[s]]
    /\ report' = NoReport
    /\ UNCHANGED <<registry, views, view, pc, crashed, history, channel>>

\* A registration that does not wait for the locks of the registry.
LockIgnored == TRUE

\* self.registry.lock() returns: no ReportPeek holds the registry.
RegistryLock == views = 0

\* A registry with one map for the three kinds.
OneMap(kind, cs, gs, ss) == cs

\* reg.counters, reg.gauges, reg.stats: the map of the Registry in which
\* Scope::counter, gauge and stat look the Key up.
RegistryMap(kind, cs, gs, ss) ==
    IF kind = "counter" THEN cs ELSE IF kind = "gauge" THEN gs ELSE ss

\* The lookup-or-create of one kind: `map` is that kind's registry map.  The
\* whole of it runs under self.registry.lock(), which a live ReportPeek excludes.
Register(s, name, kind, map, fresh, h) ==
    LET key == KeyNew(name, scopes[s])
        c == NewCell
        r == LookupOrCreate(map, key, c)
        created == r.cell = c
    IN  /\ RegistryLock
        /\ FreeCells # {}
        /\ handles[h].kind = "none"
        /\ \A g \in FreeHandles : h <= g
        /\ Commit(IF created THEN [heap EXCEPT ![c] = fresh] ELSE heap,
                  IF kind = "counter" THEN r.map ELSE counters,
                  IF kind = "gauge" THEN r.map ELSE gauges,
                  IF kind = "stat" THEN r.map ELSE stats,
                  [handles EXCEPT ![h] = [kind |-> kind, cell |-> r.cell, key |-> key,
                                          bounds |-> << >>]])
        /\ held' = held \cup {<<kind, key>>}
        /\ quiet' = IF created THEN 0 ELSE quiet
        /\ report' = NoReport
        /\ UNCHANGED <<scopes, applied, views, view, pc, crashed, status, lastSet,
                       channel>>

ScopeCounter(s, name, h) ==
    Register(s, name, "counter", RegistryMap("counter", counters, gauges, stats),
             NewAtomic, h)
ScopeGauge(s, name, h) ==
    Register(s, name, "gauge", RegistryMap("gauge", counters, gauges, stats),
             NewAtomic, h)
ScopeStat(s, name, h) ==
    Register(s, name, "stat", RegistryMap("stat", counters, gauges, stats),
             HistogramWithSumNew, h)

\* Scope::stat_with_bounds -> mk_stat: a key that has a cell gets a handle
\* of that cell, whatever the bounds; for a new key the histogram is made
\* with the bounds, and .expect panics, before anything is inserted, when
\* they are refused.
\* A mk_stat that checks the bounds of every call.
AlwaysValidated(created) == TRUE

\* The bounds are looked at by HistogramWithSum::new only, which mk_stat
\* calls when the Key has no cell.
Validated(created) == created

ScopeStatWithBounds(s, name, h, low, high) ==
    LET key == KeyNew(name, scopes[s])
        c == NewCell
        r == LookupOrCreate(stats, key, c)
        created == r.cell = c
        refused == Validated(created) /\ ~ValidBounds(low, high)
    IN  /\ RegistryLock
        /\ FreeCells # {}
        /\ handles[h].kind = "none"
        /\ \A g \in FreeHandles : h <= g
        /\ IF refused
           THEN /\ panicked' = TRUE
                /\ UNCHANGED <<registry, held, quiet>>
           ELSE /\ Commit(IF created
                          THEN [heap EXCEPT ![c] = HistogramWithSumBounded(low, high)]
                          ELSE heap,
                          counters, gauges, r.map,
                          [handles EXCEPT ![h] = [kind |-> "stat", cell |-> r.cell,
                                                  key |-> key,
                                                  bounds |-> <<low, high>>]])
                /\ held' = held \cup {<<"stat", key>>}
                /\ quiet' = IF created THEN 0 ELSE quiet
                /\ UNCHANGED panicked
        /\ report' = NoReport
        /\ UNCHANGED <<scopes, applied, views, view, pc, crashed, status, lastSet,
                       factory, recorders, queue, rx, aggPc, merged, woken, lock,
                       chanReport, beats, legacy, timing, printed, sent>>

(***************************************************************************)
(* Handle operations.                                                      *)
(***************************************************************************)
\* #[derive(Clone)]: the clone holds a reference to the same cell.
\* A clone that refers to a cell of its own.
CloneApart(handle) == [handle EXCEPT !.cell = NewCell]

\* #[derive(Clone)] on Counter, Gauge and Stat: Arc::clone, and for a Stat
\* a copy of the bounds.
ArcClone(handle) == handle

HandleClone(h, h2) ==
    /\ handles[h].kind # "none"
    /\ handles[h2].kind = "none"
    /\ \A g \in FreeHandles : h2 <= g
    /\ Commit(heap, counters, gauges, stats,
              [handles EXCEPT ![h2] = ArcClone(handles[h])])
    /\ report' = NoReport
    /\ UNCHANGED <<scopes, applied, views, view, pc, crashed, history, channel>>

\* drop(handle)
HandleDrop(h) ==
    /\ handles[h].kind # "none"
    /\ heap[handles[h].cell].owner # h
    /\ Commit(heap, counters, gauges, stats, [handles EXCEPT ![h] = NoHandle])
    /\ report' = NoReport
    /\ UNCHANGED <<scopes, applied, views, view, pc, crashed, history, channel>>

\* A write of `new` to the cell handle h references.  No lock of the registry
\* is taken.
\* A write that waits until no view holds a lock of the registry.
WriteWaitsForRegistry == views = 0

\* Counter::incr, Gauge::incr / decr / set and Stat::add take no lock of the
\* registry: a write is admitted whoever holds one.
WriteAdmitted == TRUE

Write(h, new) ==
    LET c == handles[h].cell
    IN  /\ WriteAdmitted
        /\ IF heap[c].kind = "free"
           THEN crashed' = TRUE /\ UNCHANGED heap
           ELSE heap' = [heap EXCEPT ![c] = new] /\ UNCHANGED crashed
        /\ status' = [k \in DrainedKinds |->
                          IF k = handles[h].kind THEN "dirty" ELSE status[k]]
        /\ quiet' = 0
        /\ report' = NoReport
        /\ UNCHANGED <<scopes, applied, counters, gauges, stats, handles, views,
                       view, pc, held, channel>>

OtherKeys(k) == {e \in lastSet : e[1] # k}

CounterIncr(h, v) ==
    LET c == handles[h].cell
    IN  /\ handles[h].kind = "counter"
        /\ heap[c].incrs + v <= MaxCount
        /\ Write(h, [heap[c] EXCEPT !.val = FetchAdd(@, v), !.incrs = @ + v])
        /\ UNCHANGED lastSet

GaugeIncr(h, v) ==
    LET c == handles[h].cell
    IN  /\ handles[h].kind = "gauge"
        /\ Write(h, [heap[c] EXCEPT !.val = FetchAdd(@, v)])
        /\ lastSet' = OtherKeys(handles[h].key)

GaugeDecr(h, v) ==
    LET c == handles[h].cell
    IN  /\ handles[h].kind = "gauge"
        /\ Write(h, [heap[c] EXCEPT !.val = FetchSub(@, v)])
        /\ lastSet' = OtherKeys(handles[h].key)

GaugeSet(h, v) ==
    LET c == handles[h].cell
    IN  /\ handles[h].kind = "gauge"
        /\ Write(h, [heap[c] EXCEPT !.val = Store(@, v)])
        /\ lastSet' = OtherKeys(handles[h].key) \cup {<<handles[h].key, v>>}

StatAdd(h, v) ==
    LET c == handles[h].cell
    IN  /\ handles[h].kind = "stat"
        /\ Unlocked(heap[c])
        /\ Len(heap[c].histogram) < MaxRecords
        /\ Write(h, Record(heap[c], v))
        /\ UNCHANGED lastSet

\* Stat::add_values: every value is recorded under one lock of the cell.
StatAddValues(h, vs) ==
    LET c == handles[h].cell
    IN  /\ handles[h].kind = "stat"
        /\ Unlocked(heap[c])
        /\ Len(heap[c].histogram) + Len(vs) <= MaxStatValues
        /\ Write(h, RecordAll(heap[c], vs))
        /\ UNCHANGED lastSet

\* Stat::add_values, step by step.  self.histo.lock(): the caller waits for
\* the lock of the cell; `pending` holds the values it has yet to record.
StatLock(h, vs) ==
    LET c == handles[h].cell
    IN  /\ handles[h].kind = "stat"
        /\ Unlocked(heap[c])
        /\ Len(heap[c].histogram) + Len(vs) <= MaxStatValues
        /\ Write(h, [heap[c] EXCEPT !.owner = h, !.pending = vs])
        /\ UNCHANGED lastSet

\* histo.record(*v), first statement.
StatRecordHistogram(h) ==
    LET c == handles[h].cell
    IN  /\ handles[h].kind = "stat"
        /\ heap[c].owner = h
        /\ heap[c].pending # << >>
        /\ ~heap[c].half
        /\ Write(h, [RecordHistogram(heap[c], Head(heap[c].pending))
                        EXCEPT !.half = TRUE])
        /\ UNCHANGED lastSet

\* histo.record(*v), second statement; the loop goes on to the next value.
StatRecordSum(h) ==
    LET c == handles[h].cell
    IN  /\ handles[h].kind = "stat"
        /\ heap[c].owner = h
        /\ heap[c].half
        /\ Write(h, [RecordSum(heap[c], Head(heap[c].pending))
                        EXCEPT !.half = FALSE, !.pending = Tail(@)])
        /\ UNCHANGED lastSet

\* The guard of the lock goes out of scope when add_values returns.
StatUnlock(h) ==
    LET c == handles[h].cell
    IN  /\ handles[h].kind = "stat"
        /\ heap[c].owner = h
        /\ heap[c].pending = << >>
        /\ Write(h, [heap[c] EXCEPT !.owner = 0])
        /\ UNCHANGED lastSet

(***************************************************************************)
(* Reporter (report.rs).                                                   *)
(***************************************************************************)
\* What a ReportPeek shows of the registry.
\* The Reporter reads a stat cell under the lock of the cell: it waits for
\* a Stat::add or add_values that holds it.
StatsReadable == \A c \in MapCells(stats) : Unlocked(heap[c])

PeekReport ==
    [kind |-> "peek",
     counters |-> SnapValues(counters, heap),
     gauges |-> SnapValues(gauges, heap),
     stats |-> SnapStats(stats, heap)]

\* peek(): read locks on the three maps, held by the returned view.
Peek ==
    /\ views < MaxViews
    /\ StatsReadable
    /\ views' = views + 1
    /\ view' = PeekReport
    /\ quiet' = IF quiet < 2 THEN quiet + 1 ELSE quiet
    /\ report' = NoReport
    /\ UNCHANGED <<scopes, applied, registry, pc, crashed, status, held, lastSet,
                   channel>>

\* The ReportPeek goes out of scope: the read locks are released.
DropView ==
    /\ views > 0
    /\ views' = views - 1
    /\ report' = NoReport
    /\ UNCHANGED <<scopes, applied, registry, view, pc, crashed, history, channel>>

\* held after take() visited the map of `kind`: of that kind, the keys for
\* which a handle exists.
HeldAfter(kind) ==
    {e \in held : e[1] # kind}
        \cup {<<kind, handles[h].key>> : h \in {g \in HandleIds : handles[g].kind = kind}}

\* The status of a kind after take() visited its map: "taken" when it
\* reported data written since the visit before, "retaken" when it came
\* straight after such a visit with no write in between.
Visited(kind, data) ==
    [status EXCEPT ![kind] =
        IF @ = "dirty" /\ data THEN "taken"
        ELSE IF @ = "taken" THEN "retaken"
        ELSE "clean"]

\* take(), first block: copy the counters under the read lock.
TakeCounters ==
    /\ pc = "idle"
    /\ pc' = "gauges"
    /\ report' = [NoReport EXCEPT !.kind = "counters",
                                   !.counters = SnapValues(counters, heap)]
    /\ Commit(heap, CountersAfterTake(counters), gauges, stats, handles)
    /\ held' = HeldAfter("counter")
    /\ quiet' = 0
    /\ UNCHANGED <<scopes, applied, views, view, crashed, status, lastSet, channel>>

\* take(), second block: drain the gauges under the write lock.
TakeGauges ==
    /\ pc = "gauges"
    /\ views = 0
    /\ pc' = "stats"
    /\ report' = [NoReport EXCEPT !.kind = "gauges",
                                   !.gauges = SnapValues(gauges, heap)]
    /\ Commit(heap, counters, AfterDrain(gauges), stats, handles)
    /\ status' = Visited("gauge", \E e \in Range(gauges) : heap[e.cell].val # 0)
    /\ held' = HeldAfter("gauge")
    /\ lastSet' = {}
    /\ quiet' = 0
    /\ UNCHANGED <<scopes, applied, views, view, crashed, channel>>

\* A take() whose report keeps guards of the maps, as a ReportPeek does.
ReportKeepsGuards(n) == n + 1

\* The guards held on the registry once take() has returned, when n were
\* held before: ReportTake owns its three maps, and the guards of take()
\* went out of scope at the end of each block.
GuardsAfterTake(n) == n

\* take(), third block: drain the stats under the write lock, and return.
TakeStats ==
    /\ pc = "stats"
    /\ views = 0
    /\ StatsReadable
    /\ views' = GuardsAfterTake(views)
    /\ pc' = "idle"
    /\ report' = [NoReport EXCEPT !.kind = "stats",
                                   !.stats = SnapStats(stats, heap)]
    /\ Commit(heap, counters, gauges, AfterDrain(stats), handles)
    /\ status' = Visited("stat", \E e \in Range(stats) : heap[e.cell].histogram # << >>)
    /\ held' = HeldAfter("stat")
    /\ quiet' = 0
    /\ UNCHANGED <<scopes, applied, view, crashed, lastSet, channel>>

(***************************************************************************)
\* The calls of the threads that own Recorders.
RecorderOps(rs) ==
    \/ \E r \in rs : RecorderMk(r)
    \/ \E r \in rs : RecorderDrop(r)
    \/ FactoryDrop

\* The steps of Aggregator::poll.
AggregatorOps ==
    \/ AggPoll
    \/ AggMerge
    \/ AggNotReady
    \/ AggReady
    \/ AggYield

ReporterOps ==
    \/ ReporterLock
    \/ ReporterReset

(***************************************************************************)
(* Specifications.  The application's calls are grouped by metric kind;    *)
(* each specification lets the application use some of the kinds together  *)
(* with the Reporter.                                                      *)
(***************************************************************************)
HandleOps(hs) ==
    \/ \E h \in hs, h2 \in hs : HandleClone(h, h2)
    \/ \E h \in hs : HandleDrop(h)

CounterOps(hs, names, values) ==
    \/ \E name \in names, h \in hs : ScopeCounter(1, name, h)
    \/ \E h \in hs, v \in values : CounterIncr(h, v)

GaugeSetOps(hs, names, values) ==
    \/ \E name \in names, h \in hs : ScopeGauge(1, name, h)
    \/ \E h \in hs, v \in values : GaugeSet(h, v)

GaugeAddOps(hs, values) ==
    \/ \E h \in hs, v \in values : GaugeIncr(h, v)
    \/ \E h \in hs, v \in values : GaugeDecr(h, v)

StatOps(hs, names, values) ==
    \/ \E name \in names, h \in hs : ScopeStat(1, name, h)
    \/ \E h \in hs, v \in values : StatAdd(h, v)

RegisterOps(hs, names) ==
    \E name \in names, h \in hs :
        \/ ScopeCounter(1, name, h)
        \/ ScopeGauge(1, name, h)
        \/ ScopeStat(1, name, h)

PeekOps ==
    \/ Peek
    \/ DropView

TakeOps ==
    \/ TakeCounters
    \/ TakeGauges
    \/ TakeStats

\* One caller that holds one handle at a time and uses every write there is,
\* with take().
Next ==
    \/ CounterOps({1}, {"x"}, {1})
    \/ GaugeSetOps({1}, {"x"}, {2})
    \/ GaugeAddOps({1}, {1})
    \/ StatOps({1}, {"x"}, {1})
    \/ HandleDrop(1)
    \/ TakeOps

Spec == Init /\ [][Next]_vars

\* Registration of every kind on two names by callers that hold and drop
\* their handles.
NextRegister ==
    \/ RegisterOps(HandleIds, Names)
    \/ \E h \in HandleIds : HandleDrop(h)

SpecRegister == Init /\ [][NextRegister]_vars

\* Counters on two names, with peek() and take().
NextCounter ==
    \/ CounterOps(HandleIds, Names, IncrValues)
    \/ HandleOps(HandleIds)
    \/ PeekOps
    \/ TakeOps

SpecCounter == Init /\ [][NextCounter]_vars

\* Gauges on one name, with peek() and take().
NextGauge ==
    \/ GaugeSetOps(HandleIds, {"x"}, GaugeValues)
    \/ HandleOps(HandleIds)
    \/ PeekOps
    \/ TakeOps

SpecGauge == Init /\ [][NextGauge]_vars

\* One Stat, written a list of values at a time, with take().
NextStat ==
    \/ ScopeStat(1, "x", 1)
    \/ \E vs \in StatLists : StatAddValues(1, vs)
    \/ HandleDrop(1)
    \/ TakeOps

SpecStat == Init /\ [][NextStat]_vars

\* Counters and gauges on two names, registered in any order by a caller
\* that holds one handle at a time, with peek() and take().
NextOrder ==
    \/ \E name \in Names : ScopeCounter(1, name, 1)
    \/ \E name \in Names : ScopeGauge(1, name, 1)
    \/ HandleDrop(1)
    \/ PeekOps
    \/ TakeOps

SpecOrder == Init /\ [][NextOrder]_vars

\* Callers that register metrics of every kind under one name and drop
\* their handles, and a caller that holds peek() views.
NextBlock ==
    \/ RegisterOps(HandleIds, {"x"})
    \/ \E h \in HandleIds : HandleDrop(h)
    \/ PeekOps

SpecBlock == Init /\ [][NextBlock]_vars

\* A caller of the synchronous store with one Counter and one Gauge in hand.
NextLegacy ==
    \/ \E name \in Names : MetricsMakeCounter(name)
    \/ \E name \in Names : MetricsMakeTimer(name)
    \/ LegacyCounterIncr
    \/ \E name \in Names, v \in GaugeValues : LegacyGaugeNew(name, v)
    \/ \E v \in GaugeValues : LegacyGaugeSet(v)
    \/ MetricsReportCounter
    \/ MetricsReportGauge
    \/ MetricsClear

SpecLegacy == Init /\ [][NextLegacy]_vars

\* Durations and their conversions.
NextTiming ==
    \/ \E secs \in Secs, nanos \in Nanos : DurationNew(secs, nanos)
    \/ ElapsedUs
    \/ ElapsedMs

SpecTiming == Init /\ [][NextTiming]_vars

\* Scopes labelled in any order, and the counters made from them.
NextScope ==
    \/ \E s \in ScopeIds, k \in LabelNames, v \in LabelValues : ScopeLabeled(s, k, v)
    \/ \E s \in ScopeIds, h \in HandleIds : ScopeCounter(s, "x", h)

SpecScope == Init /\ [][NextScope]_vars

\* Two Scope variables, each reassigned to a child of itself or of the other,
\* and a counter made from one of them.
NextDerive ==
    \/ \E s \in ScopeIds, k \in LabelNames, v \in LabelValues : ScopeLabeled(s, k, v)
    \/ \E s \in ScopeIds, t \in ScopeIds, k \in LabelNames, v \in LabelValues :
           ScopeCloneLabeled(s, t, k, v)
    \/ \E s \in ScopeIds, t \in ScopeIds, value \in Segments :
           ScopeClonePrefixed(s, t, value)
    \/ \E s \in ScopeIds : ScopeCounter(s, "x", 1)

SpecDerive == Init /\ [][NextDerive]_vars

\* A thread that makes, writes and drops one Recorder after another of one
\* counter, one gauge and one stat; the Aggregator; the reporter.
NextChannel ==
    \/ RecorderOps({1})
    \/ \E n \in Deltas : RecorderIncr(1, n)
    \/ \E n \in Levels : RecorderSet(1, n)
    \/ \E n \in Timings : RecorderAdd(1, n)
    \/ AggregatorOps
    \/ ReporterOps

SpecChannel == Init /\ [][NextChannel]_vars

\* An application that adds large values to one stat, and the Reporter.
NextSum ==
    \/ ScopeStat(1, "x", 1)
    \/ \E vs \in SumLists : StatAddValues(1, vs)
    \/ HandleDrop(1)
    \/ TakeOps

SpecSum == Init /\ [][NextSum]_vars

\* An application that sets and decrements one gauge, and the Reporter.
NextDecr ==
    \/ ScopeGauge(1, "x", 1)
    \/ \E v \in GaugeValues : GaugeSet(1, v)
    \/ \E v \in IncrValues : GaugeDecr(1, v)
    \/ HandleDrop(1)
    \/ TakeOps

SpecDecr == Init /\ [][NextDecr]_vars

\* A thread in Stat::add_values, statement by statement, and the Reporter.
NextTorn ==
    \/ ScopeStat(1, "x", 1)
    \/ \E vs \in StatLists : StatLock(1, vs)
    \/ StatRecordHistogram(1)
    \/ StatRecordSum(1)
    \/ StatUnlock(1)
    \/ HandleDrop(1)
    \/ PeekOps
    \/ TakeOps

SpecTorn == Init /\ [][NextTorn]_vars

\* One thread in Stat::add_values on stat "x", statement by statement,
\* another that makes and writes a counter or a gauge "y", and a Reporter
\* that takes views with peek().
NextWrite ==
    \/ ScopeStat(1, "x", 1)
    \/ StatLock(1, <<2>>)
    \/ StatRecordHistogram(1)
    \/ StatRecordSum(1)
    \/ StatUnlock(1)
    \/ ScopeCounter(1, "y", 2)
    \/ ScopeGauge(1, "y", 2)
    \/ CounterIncr(2, 1)
    \/ GaugeSet(2, 1)
    \/ \E h \in HandleIds : HandleDrop(h)
    \/ PeekOps

SpecWrite == Init /\ [][NextWrite]_vars

\* Threads that make stats of one key, with and without bounds, add values
\* to them and drop them; `panicked` tells that a call has panicked.
NextBounds ==
    \/ \E h \in HandleIds : ScopeStat(1, "x", h)
    \/ \E h \in HandleIds, b \in BoundsPairs :
           ScopeStatWithBounds(1, "x", h, b[1], b[2])
    \/ \E h \in HandleIds, v \in Timings \cup {1} : StatAdd(h, v)
    \/ \E h \in HandleIds : HandleDrop(h)

SpecBounds == Init /\ [][NextBounds]_vars

\* Threads that make, clone, increment and drop Recorders of one counter,
\* and the Aggregator.
NextClone ==
    \/ RecorderOps(RecorderIds)
    \/ \E r \in RecorderIds, r2 \in RecorderIds : RecorderClone(r, r2)
    \/ \E r \in RecorderIds, n \in Deltas : RecorderIncr(r, n)
    \/ AggregatorOps

SpecClone == Init /\ [][NextClone]_vars

\* A thread that makes, sets and drops Recorders of one gauge, and an
\* Aggregator that is dropped at some point between two polls.
NextClosed ==
    \/ RecorderOps({1})
    \/ \E n \in Levels : RecorderSet(1, n)
    \/ AggregatorOps
    \/ AggDrop

SpecClosed == Init /\ [][NextClosed]_vars

\* The reactor of examples/multithread.rs: the Aggregator, the heartbeat and
\* the reporter are its tasks, and another thread makes, sets and drops
\* Recorders at any speed.
NextSched ==
    \/ RecorderOps({1})
    \/ \E n \in Levels : RecorderSet(1, n)
    \/ AggregatorOps
    \/ ReporterOps
    \/ Heartbeat

\* The reactor runs its ready tasks in turn: a task that is ready again and
\* again (a notified Aggregator; the heartbeat and the reporter, whose timers
\* keep firing) is run again and again, and a task that runs goes on to the
\* point where it returns.  Nothing is assumed of the thread of the
\* Recorders.
FairSched ==
    /\ SF_vars(AggregatorOps)
    /\ SF_vars(Heartbeat)
    /\ SF_vars(ReporterLock)
    /\ WF_vars(ReporterReset)

SpecSched == Init /\ [][NextSched]_vars /\ FairSched

\* The Aggregator on a reactor and the holder of the other half of the BiLock
\* on a thread of its own, so that the Aggregator can be polled between the
\* reporter's lock and its unlock.
NextLock ==
    \/ RecorderOps({1})
    \/ \E n \in Levels : RecorderSet(1, n)
    \/ \E n \in Timings : RecorderAdd(1, n)
    \/ AggregatorOps
    \/ AggPollLocked
    \/ ReporterOps

SpecLock == Init /\ [][NextLock]_vars

(***************************************************************************)
(* Properties.                                                             *)
(***************************************************************************)
\* `snap` lists `key` with the value `val`.
Reported(snap, key, val) ==
    \E i \in 1..Len(snap) : snap[i].key = key /\ snap[i].val = val

\* `snap` lists `key`.
Listed(snap, key) == \E i \in 1..Len(snap) : snap[i].key = key

CounterHandles == {h \in HandleIds : handles[h].kind = "counter"}
GaugeHandles == {h \in HandleIds : handles[h].kind = "gauge"}
StatHandles == {h \in HandleIds : handles[h].kind = "stat"}

\* The steps of take() and peek(), as actions.
CountersVisit == pc = "idle" /\ pc' = "gauges"
GaugesVisit == pc = "gauges" /\ pc' = "stats"
StatsVisit == pc = "stats" /\ pc' = "idle"
PeekCall == views' = views + 1

\* C1: counters are cumulative and never reset by take().  Whenever take()
\* has just copied the counters, and whenever peek() has shown them with no
\* change since, the Key of every Counter handle is reported with the sum of
\* all the incr arguments applied to its cell, however many take() calls
\* came before; and the registry still maps the Key to that cell.
C1_CountersCumulative ==
    \A h \in CounterHandles :
        /\ MapGet(counters, handles[h].key) = handles[h].cell
        /\ report.kind = "counters" =>
               Reported(report.counters, handles[h].key, heap[handles[h].cell].incrs)
        /\ (view.kind = "peek" /\ quiet >= 1) =>
               Reported(view.counters, handles[h].key, heap[handles[h].cell].incrs)

\* C1 witness: a take() reports the total MaxCount for a counter, the total
\* that the last peek() showed as well, next to every other counter.
C1_Witness ==
    /\ report.kind = "counters"
    /\ \E h \in CounterHandles :
           /\ heap[handles[h].cell].incrs = MaxCount
           /\ Reported(report.counters, handles[h].key, MaxCount)
           /\ Reported(view.counters, handles[h].key, MaxCount)
    /\ Len(report.counters) = Cardinality(Names)

\* C2: no increment is lost.  In every state reached by any interleaving of
\* incr calls through handles and clones of handles, the value of every
\* counter cell equals the sum of all the increments applied to it.
C2_NoLostIncrement ==
    /\ \A e \in Range(counters) : heap[e.cell].val = heap[e.cell].incrs
    /\ \A h \in CounterHandles : heap[handles[h].cell].val = heap[handles[h].cell].incrs

\* C2 witness: two handles share a counter cell that has received every
\* increment the bound allows.
C2_Witness ==
    \E h1 \in CounterHandles, h2 \in CounterHandles :
        /\ h1 # h2
        /\ handles[h1].cell = handles[h2].cell
        /\ heap[handles[h1].cell].val = MaxCount

C4_Original ==
    [][/\ CountersVisit =>
              \A i \in 1..Len(report'.counters) :
                  <<"counter", report'.counters[i].key>> \in held
       /\ GaugesVisit =>
              \A i \in 1..Len(report'.gauges) :
                  <<"gauge", report'.gauges[i].key>> \in held
       /\ StatsVisit =>
              \A i \in 1..Len(report'.stats) :
                  <<"stat", report'.stats[i].key>> \in held]_vars

\* C5: the snapshot is produced before the eviction.  Every gauge or stat
\* Key that had a handle when take() last visited its map, or was registered
\* since, is listed by the next visit, whether or not the handle was dropped
\* in between.
C5_Original ==
    [][/\ GaugesVisit =>
              \A e \in held : e[1] = "gauge" => Listed(report'.gauges, e[2])
       /\ StatsVisit =>
              \A e \in held : e[1] = "stat" => Listed(report'.stats, e[2])]_vars

\* C6: a handle survives take().  No write through a handle ever reaches a
\* deallocated cell, and the cell of every handle is allocated and of the
\* handle's kind, after any number of take() calls.
C6_HandleSurvives ==
    /\ ~crashed
    /\ \A h \in HandleIds :
           /\ handles[h].kind \in {"counter", "gauge"} =>
                  heap[handles[h].cell].kind = "atomic"
           /\ handles[h].kind = "stat" => heap[handles[h].cell].kind = "histo"

\* C6 witness: a gauge handle obtained before a take() has written to its
\* cell after that take() removed the cell from the registry.
C6_Witness ==
    \E h \in GaugeHandles :
        /\ handles[h].cell \notin MapCells(gauges)
        /\ status["gauge"] = "dirty"
        /\ heap[handles[h].cell].val # 0
        /\ ~crashed

\* C7: lookup-or-create is atomic.  In every state reached by any
\* interleaving of Scope.counter, Scope.gauge and Scope.stat calls, no map
\* holds a Key twice, and two handles of one kind with equal Keys reference
\* the same cell, the one the map holds for the Key.
C7_OneCellPerKey ==
    /\ \A map \in {counters, gauges, stats} :
           \A i \in 1..Len(map), j \in 1..Len(map) :
               map[i].key = map[j].key => i = j
    /\ \A h1 \in HandleIds, h2 \in HandleIds :
           (/\ handles[h1].kind # "none"
            /\ handles[h1].kind = handles[h2].kind
            /\ handles[h1].key = handles[h2].key)
               => handles[h1].cell = handles[h2].cell
    /\ \A h \in CounterHandles : MapGet(counters, handles[h].key) = handles[h].cell
    /\ \A h \in GaugeHandles : MapGet(gauges, handles[h].key) = handles[h].cell
    /\ \A h \in StatHandles : MapGet(stats, handles[h].key) = handles[h].cell

\* C7 witness: two calls of Scope.gauge that built equal Keys have returned
\* handles to one cell, while a counter with that Key lives in its own map.
C7_Witness ==
    /\ \E h1 \in GaugeHandles, h2 \in GaugeHandles :
           /\ h1 # h2
           /\ handles[h1].key = handles[h2].key
           /\ handles[h1].cell = handles[h2].cell
           /\ handles[h1].key \in MapKeys(counters)
    /\ Len(gauges) = 1

\* The labels of `pairs` applied in order.
Each(pairs) == {pairs[i][1] : i \in 1..Len(pairs)}

\* C8: label identity is insertion-order independent.  Two Scopes to which
\* the same set of <<label, value>> pairs, one value per label, was applied
\* in any order build equal Keys for a metric name, and the counter handles
\* made with equal Keys share the one registry entry of the Key.
C8_LabelOrderIndependent ==
    /\ \A s1 \in ScopeIds, s2 \in ScopeIds :
           (/\ Range(applied[s1]) = Range(applied[s2])
            /\ Cardinality(Each(applied[s1])) = Cardinality(Range(applied[s1])))
               => KeyNew("x", scopes[s1]) = KeyNew("x", scopes[s2])
    /\ \A h1 \in CounterHandles, h2 \in CounterHandles :
           handles[h1].key = handles[h2].key => handles[h1].cell = handles[h2].cell
    /\ \A i \in 1..Len(counters), j \in 1..Len(counters) :
           counters[i].key = counters[j].key => i = j

\* C8 witness: two Scopes got the same two labels in opposite orders, and
\* the counters made from them share the only registry entry.
C8_Witness ==
    /\ Len(applied[1]) = MaxLabelOps
    /\ applied[1] # applied[2]
    /\ Range(applied[1]) = Range(applied[2])
    /\ Cardinality(Each(applied[1])) = MaxLabelOps
    /\ \E h1 \in CounterHandles, h2 \in CounterHandles :
           /\ h1 # h2
           /\ handles[h1].key = KeyNew("x", scopes[1])
           /\ handles[h2].key = KeyNew("x", scopes[2])
           /\ handles[h1].cell = handles[h2].cell
    /\ Len(counters) = 1

\* C9: gauge last-write-wins.  When set(v) was the last write to a gauge
\* Key and nothing has changed since peek() was called, the peek shows v
\* for the Key.
C9_Original ==
    (view.kind = "peek" /\ quiet >= 1) =>
        \A e \in lastSet : Reported(view.gauges, e[1], e[2])

\* C10: peek() is read-only.  A call of peek() leaves every map and every
\* cell as it was, and when nothing was written or registered since the
\* peek() before it, it shows exactly what that one showed, whatever handles
\* were dropped in between.
C10_PeekReadOnly ==
    [][PeekCall =>
           /\ UNCHANGED <<heap, counters, gauges, stats>>
           /\ quiet >= 1 => view' = view]_vars

\* C10 witness: the second of two peeks with no write in between shows a
\* gauge with a value it was set to, although no handle to it is left.
C10_Witness ==
    /\ quiet = 2
    /\ \E i \in 1..Len(view.gauges) : view.gauges[i].val \in GaugeValues
    /\ GaugeHandles = {}
    /\ view = PeekReport

RECURSIVE SeqSum(_)
SeqSum(seq) == IF seq = << >> THEN 0 ELSE Head(seq) + SeqSum(Tail(seq))

\* What the accessors of a stat cell return: <<count, sum, min, max>>.
Summary(cell) == <<HistoCount(cell), HistoSum(cell), HistoMin(cell), HistoMax(cell)>>

\* C11: stat accumulation within one reporting interval.  A cell that holds
\* the values recorded since it was made or last reported has count = their
\* number and sum = their sum; after [1,2,3] it shows count 3, sum 6, min 1,
\* max 3, and after [1,2,3] twice count 6, sum 12, min 1, max 3.
C11_StatAccumulates ==
    \A c \in CellIds :
        heap[c].kind = "histo" =>
            /\ HistoCount(heap[c]) = Len(heap[c].histogram)
            /\ HistoSum(heap[c]) = SeqSum(heap[c].histogram)
            /\ heap[c].histogram = <<1, 2, 3>> => Summary(heap[c]) = <<3, 6, 1, 3>>
            /\ heap[c].histogram = <<1, 2, 3, 1, 2, 3>> =>
                   Summary(heap[c]) = <<6, 12, 1, 3>>

\* C11 witness: [1,2,3] was recorded twice into the cell of a Stat with no
\* take() in between, and the cell shows count 6 and sum 12.
C11_Witness ==
    \E h \in StatHandles :
        /\ heap[handles[h].cell].histogram = <<1, 2, 3, 1, 2, 3>>
        /\ handles[h].cell \in MapCells(stats)
        /\ Summary(heap[handles[h].cell]) = <<6, 12, 1, 3>>

(***************************************************************************)
(* The channel pipeline.                                                   *)
(***************************************************************************)
\* C12: one invocation of Aggregator::poll merges at most max_batch_size
\* Samples; once it has merged max_batch_size of them it merges no more, and
\* the invocation ends by returning NotReady (never Ready) with the Report
\* unlocked and its own task notified.
C12_BatchCap ==
    [][/\ merged' <= max_batch_size
       /\ (aggPc = "polling" /\ merged = max_batch_size) =>
              /\ chanReport' = chanReport
              /\ merged' = merged
              /\ aggPc' # "polling" =>
                     aggPc' = "idle" /\ woken' /\ lock' = "free"]_vars

\* The Aggregator has yielded after a full batch while a Sample is queued.
C12_Witness ==
    /\ aggPc = "idle"
    /\ merged = max_batch_size
    /\ woken
    /\ queue # << >>

\* C13: whatever the thread of the Recorders does, and so even if it keeps
\* the queue non-empty for ever, as long as the reactor runs (the Aggregator
\* has not completed) the heartbeat takes a step again and again and the
\* reporter holds the lock of the Report again and again.
C13_NoStarvation ==
    /\ []<>(aggPc = "done" \/ beats = 0)
    /\ []<>(aggPc = "done" \/ beats = 1)
    /\ []<>(aggPc = "done" \/ lock = "reporter")
    /\ []<>(aggPc = "done" \/ lock = "free")

\* The heartbeat has run, and the Aggregator has yielded after a full batch
\* while more is queued and Recorders can still be made.
C13_Witness ==
    /\ beats = 1
    /\ aggPc = "idle"
    /\ merged = max_batch_size
    /\ queue # << >>
    /\ factory

\* C14: the Aggregator completes only when no Sender is left and nothing is
\* queued, no Sample queued before that having been discarded; and once no
\* Sender is left it does complete, under the reactor's fair polling.
C14_Termination ==
    /\ [](aggPc = "done" =>
            /\ Senders(factory, recorders) = 0
            /\ queue = << >>
            /\ ~sent.lost)
    /\ (Senders(factory, recorders) = 0) ~> (aggPc = "done")

\* The Aggregator has completed after Samples were queued and merged.
C14_Witness ==
    /\ aggPc = "done"
    /\ sent.gauge # << >>
    /\ chanReport.g = sent.gauge

\* C15: when the Aggregator completes, the Report's counter is the sum of
\* the deltas given to Recorder::incr, whatever Recorders were made, cloned
\* and dropped.
C15_Original ==
    aggPc = "done" =>
        chanReport.c = IF sent.deltas = 0 THEN << >> ELSE <<sent.deltas>>

\* C16: Samples are merged in the order in which they were queued: whenever
\* the Aggregator has drained the queue, the Report's counter is the sum of
\* the counters of all Samples queued, its gauge is the gauge of the last
\* Sample queued that has one, and its histogram holds every stat value of
\* every Sample (gauges and stats counted from the reporter's last reset).
C16_FoldInOrder ==
    (queue = << >> /\ aggPc # "dropped") =>
        /\ chanReport.c = IF sent.counter = 0 THEN << >> ELSE <<sent.counter>>
        /\ chanReport.g = sent.gauge
        /\ chanReport.s = sent.stats

\* Two Samples were merged in one poll and the queue is drained: the counter
\* was added up, a gauge was set and a stat value recorded.
C16_Witness ==
    /\ queue = << >>
    /\ merged >= 2
    /\ chanReport.c = <<2>>
    /\ chanReport.g = <<1>>
    /\ chanReport.s # << >>

\* The counter deltas held in the local Samples of Recorders 1..n.
RECURSIVE LocalDeltas(_, _)
LocalDeltas(recs, n) ==
    IF n = 0 THEN 0
    ELSE LocalDeltas(recs, n - 1)
         + (IF recs[n].sample.c = << >> THEN 0 ELSE recs[n].sample.c[1])

\* C17: incr, set and add change the Recorder's local Sample only and leave
\* the queue alone; the queue grows only when a Recorder is dropped, by one
\* Sample, the one that Recorder had accumulated; and every delta given to
\* incr is either in a local Sample or in a Sample that was queued.
C17_SendOnDrop ==
    [][/\ (\E r \in RecorderIds :
              /\ recorders[r].live
              /\ recorders'[r].live
              /\ recorders'[r].sample # recorders[r].sample) => queue' = queue
       /\ Len(queue') > Len(queue) =>
              \E r \in RecorderIds :
                  /\ recorders[r].live
                  /\ ~recorders'[r].live
                  /\ queue' = Append(queue, recorders[r].sample)
       /\ \A r \in RecorderIds :
              (recorders[r].live /\ ~recorders'[r].live /\ rx = "open") =>
                  queue' = Append(queue, recorders[r].sample)
       /\ sent'.deltas = sent'.counter + LocalDeltas(recorders', MaxRecorders)
      ]_vars

\* One Sample is queued that holds several updates of one Recorder.
C17_Witness ==
    /\ Len(queue) = 1
    /\ queue[1].c = <<2>>
    /\ queue[1].g # << >>
    /\ queue[1].s # << >>

\* C18: when the receiver of the queue is gone, dropping a Recorder does
\* not panic; its Sample is discarded, nothing is queued and the Report is
\* left as it was.
C18_SendErrorSwallowed ==
    [][\A r \in RecorderIds :
          (recorders[r].live /\ ~recorders'[r].live /\ rx = "closed") =>
              /\ ~panicked'
              /\ sent'.lost
              /\ queue' = queue
              /\ chanReport' = chanReport]_vars

\* A Recorder that had set a gauge was dropped after the Aggregator, whose
\* Report holds what it had merged before.
C18_Witness ==
    /\ sent.lost
    /\ aggPc = "dropped"
    /\ ~panicked
    /\ chanReport.g # << >>
    /\ LiveRecorders = {}

(***************************************************************************)
(* Stat bounds and values out of range.                                    *)
(***************************************************************************)
\* C19: a Stat is never made with bounds where low < 1 or high < 2 * low:
\* the call that asks for them panics, so that no Stat handle carries such
\* bounds.
C19_Original ==
    \A h \in HandleIds :
        (handles[h].kind = "stat" /\ handles[h].bounds # << >>) =>
            ValidBounds(handles[h].bounds[1], handles[h].bounds[2])

\* C20: a value that the histogram does not record leaves the cell as it
\* was: when the count of a stat cell is unchanged, so is its sum.
C20_Original ==
    [][\A c \in CellIds :
          (/\ heap[c].kind = "histo"
           /\ heap'[c].kind = "histo"
           /\ heap'[c].histogram = heap[c].histogram) =>
              heap'[c].sum = heap[c].sum]_vars

(***************************************************************************)
(* Arithmetic at the limits.                                               *)
(***************************************************************************)
\* The smaller of two numbers.
Min(a, b) == IF a <= b THEN a ELSE b

\* C21: the sum of a stat cell is the true sum of the values recorded in it,
\* or the largest value of the word when the true sum exceeds it: it never
\* wraps around, and a saturated sum stays at the maximum as long as the
\* cell lives.
C21_SumSaturates ==
    \A c \in CellIds :
        heap[c].kind = "histo" =>
            heap[c].sum = Min(SeqSum(heap[c].histogram), WordMax)

\* More was recorded in a cell than the word holds, and its sum is the
\* maximum.
C21_Witness ==
    \E c \in CellIds :
        /\ heap[c].kind = "histo"
        /\ SeqSum(heap[c].histogram) > WordMax
        /\ heap[c].sum = WordMax

\* C22: decr never takes a gauge below zero, where it would wrap around to
\* a large value: a gauge that is only ever set and decremented holds at
\* most the largest value it was set to.
C22_Original ==
    \A h \in GaugeHandles :
        \A v \in GaugeValues :
            (\A w \in GaugeValues : w <= v) => heap[handles[h].cell].val <= v

(***************************************************************************)
(* Writers and the Reporter, interleaved.                                  *)
(***************************************************************************)
\* `seq` is made of whole batches given to add_values.
RECURSIVE Whole(_)
Whole(seq) ==
    \/ seq = << >>
    \/ \E vs \in StatLists :
           /\ Len(vs) <= Len(seq)
           /\ SubSeq(seq, 1, Len(vs)) = vs
           /\ Whole(SubSeq(seq, Len(vs) + 1, Len(seq)))

\* The stats that the last take() step or the live peek() view shows.
StatsShown ==
    {report.stats[i] : i \in 1..Len(report.stats)}
        \cup (IF views > 0 THEN {view.stats[i] : i \in 1..Len(view.stats)} ELSE {})

C24_Original ==
    [][(StatsVisit /\ status["stat"] = "dirty") =>
          \A h \in StatHandles :
              heap[handles[h].cell].histogram # << >> =>
                  \E i \in 1..Len(report'.stats) :
                      /\ report'.stats[i].key = handles[h].key
                      /\ report'.stats[i].histogram =
                             heap[handles[h].cell].histogram]_vars

\* C25: a write never waits for the registry or for another metric: in
\* every state, and so while a view holds the registry's locks and while
\* another cell is locked, incr on a Counter and set / incr / decr on a
\* Gauge can be taken at once, and add on a Stat whenever its own cell is
\* unlocked.
C25_WritesNeverBlocked ==
    /\ \A h \in CounterHandles :
           heap[handles[h].cell].incrs + 1 <= MaxCount => ENABLED CounterIncr(h, 1)
    /\ \A h \in GaugeHandles :
           /\ ENABLED GaugeSet(h, 1)
           /\ ENABLED GaugeIncr(h, 1)
           /\ ENABLED GaugeDecr(h, 1)
    /\ \A h \in StatHandles :
           (/\ Unlocked(heap[handles[h].cell])
            /\ Len(heap[handles[h].cell].histogram) < MaxRecords) =>
               ENABLED StatAdd(h, 2)

\* A view is alive, the cell of stat "x" is locked by a writer, and the
\* last step was a write.
C25_Witness ==
    /\ views > 0
    /\ quiet = 0
    /\ handles[1].kind = "stat"
    /\ heap[handles[1].cell].owner = 1
    /\ handles[2].kind \in Kinds
    /\ handles[2].key # handles[1].key

\* The lowest free handle slot, where the next handle is put.
NextHandle == CHOOSE h \in FreeHandles : \A g \in FreeHandles : h <= g

\* C26: when take() has returned its report, no lock of the registry is
\* held on its behalf: while the report is in use a Scope can register a
\* metric, and take() and peek() can be called again.
C26_TakeReleasesLocks ==
    (pc = "idle" /\ report.kind = "stats") =>
        /\ views = 0
        /\ ENABLED TakeCounters
        /\ ENABLED Peek
        /\ FreeHandles # {} => ENABLED ScopeGauge(1, "y", NextHandle)

\* take() has just returned a report that lists a gauge, and a handle slot
\* is free.
C26_Witness ==
    /\ pc = "idle"
    /\ report.kind = "stats"
    /\ FreeHandles # {}
    /\ \E h \in GaugeHandles : heap[handles[h].cell].val # 0

(***************************************************************************)
(* Handles, kinds and Scopes.                                              *)
(***************************************************************************)
\* C27: the clone of a handle refers to the cell of the original, under the
\* same Key and kind; cloning adds no entry to any map and leaves the cell
\* as it was, so that what is written through one of the two is what a
\* report shows for the Key of the other.
C27_CloneSharesCell ==
    [][\A h \in HandleIds, h2 \in HandleIds :
          HandleClone(h, h2) =>
              /\ handles'[h2].cell = handles'[h].cell
              /\ handles'[h2].key = handles[h].key
              /\ handles'[h2].kind = handles[h].kind
              /\ heap'[handles'[h2].cell] = heap[handles[h].cell]
              /\ Len(counters') = Len(counters)
              /\ Len(gauges') = Len(gauges)
              /\ Len(stats') = Len(stats)]_vars

\* Two Gauge handles share a cell that has been written, and a view shows
\* the value written under their Key.
C27_Witness ==
    /\ handles[1].kind = "gauge"
    /\ handles[2].kind = "gauge"
    /\ handles[1].cell = handles[2].cell
    /\ heap[handles[1].cell].val # 0
    /\ views > 0
    /\ Reported(view.gauges, handles[2].key, heap[handles[1].cell].val)

\* What a map holds: its Keys, each with the contents of its cell.
Content(map, hp) == {<<map[i].key, hp[map[i].cell]>> : i \in 1..Len(map)}

\* The cell of a handle that is a handle of `kind` before and after a step
\* is the same before and after.
HandleCellsKept(kind) ==
    \A h \in HandleIds :
        (handles[h].kind = kind /\ handles'[h].kind = kind) =>
            heap'[handles'[h].cell] = heap[handles[h].cell]

\* No cell is in two maps.
DistinctCells ==
    /\ MapCells(counters) \cap MapCells(gauges) = {}
    /\ MapCells(counters) \cap MapCells(stats) = {}
    /\ MapCells(gauges) \cap MapCells(stats) = {}

\* C28: the three kinds are independent.  No cell is ever in two maps, and
\* a step that changes what one map holds, or the cell of a handle of one
\* kind (a registration, a write, a reset or a removal by take()), leaves
\* what the maps of the other two kinds hold, and the cells of the handles
\* of the other two kinds, as they were.
C28_KindsIndependent ==
    [][/\ DistinctCells'
       /\ (Content(counters', heap') # Content(counters, heap)
              \/ ~HandleCellsKept("counter")) =>
              /\ Content(gauges', heap') = Content(gauges, heap)
              /\ Content(stats', heap') = Content(stats, heap)
              /\ HandleCellsKept("gauge")
              /\ HandleCellsKept("stat")
       /\ (Content(gauges', heap') # Content(gauges, heap)
              \/ ~HandleCellsKept("gauge")) =>
              /\ Content(counters', heap') = Content(counters, heap)
              /\ Content(stats', heap') = Content(stats, heap)
              /\ HandleCellsKept("counter")
              /\ HandleCellsKept("stat")
       /\ (Content(stats', heap') # Content(stats, heap)
              \/ ~HandleCellsKept("stat")) =>
              /\ Content(counters', heap') = Content(counters, heap)
              /\ Content(gauges', heap') = Content(gauges, heap)
              /\ HandleCellsKept("counter")
              /\ HandleCellsKept("gauge")]_vars

\* A counter, a gauge and a stat are registered under one Key, in three
\* cells, and the gauge has been written while the counter has not.
C28_Witness ==
    /\ Len(counters) = 1
    /\ Len(gauges) = 1
    /\ Len(stats) = 1
    /\ counters[1].key = gauges[1].key
    /\ gauges[1].key = stats[1].key
    /\ Cardinality({counters[1].cell, gauges[1].cell, stats[1].cell}) = 3
    /\ heap[gauges[1].cell].val # 0
    /\ heap[counters[1].cell].val = 0

\* The values a label map has for label k: none or one.
ValuesOf(labels, k) == {labels[i][2] : i \in {j \in 1..Len(labels) : labels[j][1] = k}}

\* `new` is `old` with label k set to v and nothing else changed.
Overwrites(old, new, k, v) ==
    /\ ValuesOf(new.labels, k) = {v}
    /\ \A j \in LabelNames \ {k} : ValuesOf(new.labels, j) = ValuesOf(old.labels, j)
    /\ new.prefix = old.prefix

\* C29: labeled(k, v) overwrites.  The Scope that labeled(k, v) returns maps
\* k to v whether k had a value or not, has every other label and the prefix
\* of the Scope it was called on, and for every Scope that a step of the
\* program makes labeled(k, v1) followed by labeled(k, v2) builds the Key that
\* labeled(k, v2) alone builds.
C29_LabeledOverwrites ==
    [][scopes' # scopes =>
       /\ \A s \in ScopeIds, k \in LabelNames, v \in LabelValues :
              ScopeLabeled(s, k, v) => Overwrites(scopes[s], scopes'[s], k, v)
       /\ \A s \in ScopeIds, t \in ScopeIds, k \in LabelNames, v \in LabelValues :
              ScopeCloneLabeled(s, t, k, v) => Overwrites(scopes[s], scopes'[t], k, v)
       /\ \A s \in ScopeIds, k \in LabelNames, v1 \in LabelValues, v2 \in LabelValues :
              KeyNew("x", Labeled(Labeled(scopes'[s], k, v1), k, v2))
                  = KeyNew("x", Labeled(scopes'[s], k, v2))]_vars

\* C29 witness: a prefixed Scope was given label 1 twice, with two values, it
\* holds the second, and the counter made from it has the Key with the second.
C29_Witness ==
    /\ applied[1] = << <<1, "a">>, <<1, "b">> >>
    /\ scopes[1].labels = << <<1, "b">> >>
    /\ scopes[1].prefix # PrefixRoot
    /\ handles[1].kind = "counter"
    /\ handles[1].key = KeyNew("x", scopes[1])

\* The segments of a prefix, from the root.
RECURSIVE Path(_)
Path(prefix) ==
    IF prefix = PrefixRoot THEN << >> ELSE Append(Path(prefix[1]), prefix[2])

\* The step binds Scope variable t to a child of Scope variable s.
Derives(s, t) ==
    \/ \E k \in LabelNames, v \in LabelValues : ScopeCloneLabeled(s, t, k, v)
    \/ \E value \in Segments : ScopeClonePrefixed(s, t, value)

\* C30: Scopes are persistent values.  A step that binds t to a child made
\* with labeled or prefixed from a clone of Scope s leaves every Scope other
\* than t, s among them, every handle's Key and every Key of the registry as
\* they were, and prefixed(value) gives the child the path of s with value
\* appended.
C30_ScopesPersistent ==
    [][/\ \A s \in ScopeIds, t \in ScopeIds :
              Derives(s, t) =>
                  /\ \A u \in ScopeIds \ {t} : scopes'[u] = scopes[u]
                  /\ \A h \in HandleIds : handles'[h].key = handles[h].key
                  /\ counters' = counters
       /\ \A s \in ScopeIds, t \in ScopeIds, value \in Segments :
              ScopeClonePrefixed(s, t, value) =>
                  /\ Path(scopes'[t].prefix) = Append(Path(scopes[s].prefix), value)
                  /\ scopes'[t].labels = scopes[s].labels]_vars

\* C30 witness: Scope 2 is a child of a child of Scope 1, with one segment
\* and one label more, and Scope 1 and the counter made from it before are as
\* they were.
C30_Witness ==
    /\ Path(scopes[1].prefix) = <<"t">>
    /\ Path(scopes[2].prefix) = <<"t", "t">>
    /\ applied[1] = << <<1, "a">> >>
    /\ applied[2] = << <<1, "a">>, <<2, "b">> >>
    /\ scopes[1].labels = << <<1, "a">> >>
    /\ handles[1].kind = "counter"
    /\ handles[1].key = KeyNew("x", scopes[1])
    /\ counters[1].key = handles[1].key

(***************************************************************************)
(* Report order, the Aggregator's lock, the channel's Report.              *)
(***************************************************************************)
\* The Keys of a map or of a snapshot, in the order in which it lists them.
KeysOf(map) == [i \in 1..Len(map) |-> map[i].key]

\* A step keeps the Keys of a map in their order, or adds a new Key after
\* them, or removes them all.
OrderKept(before, after) ==
    \/ KeysOf(after) = KeysOf(before)
    \/ /\ Len(after) = Len(before) + 1
       /\ SubSeq(KeysOf(after), 1, Len(before)) = KeysOf(before)
       /\ after[Len(after)].key \notin MapKeys(before)
    \/ after = << >>

\* C31: reports are ordered by first use.  The Keys of each map stay in the
\* order of their registration, a new Key going last, until take() removes
\* them all; and peek() and each block of take() list the Keys of a kind in
\* the order of its map, so that snapshots with no Key added or removed in
\* between list them alike.
C31_ReportOrder ==
    [][/\ OrderKept(counters, counters')
       /\ OrderKept(gauges, gauges')
       /\ OrderKept(stats, stats')
       /\ PeekCall =>
              /\ KeysOf(view'.counters) = KeysOf(counters)
              /\ KeysOf(view'.gauges) = KeysOf(gauges)
              /\ KeysOf(view'.stats) = KeysOf(stats)
       /\ CountersVisit => KeysOf(report'.counters) = KeysOf(counters)
       /\ GaugesVisit => KeysOf(report'.gauges) = KeysOf(gauges)
       /\ StatsVisit => KeysOf(report'.stats) = KeysOf(stats)]_vars

\* C31 witness: after a take(), gauge "y" was registered before gauge "x",
\* counter "x" before counter "y", and a peek() lists them in these orders.
C31_Witness ==
    /\ views > 0
    /\ Len(view.gauges) = 2
    /\ view.gauges[1].key.name = "y"
    /\ view.gauges[2].key.name = "x"
    /\ Len(view.counters) = 2
    /\ view.counters[1].key.name = "x"
    /\ view.counters[2].key.name = "y"
    /\ KeysOf(gauges) = KeysOf(view.gauges)
    /\ KeysOf(counters) = KeysOf(view.counters)

\* C32: the self-wake guarantees progress.  A poll that returns NotReady
\* with its batch full has notified its own task; and under the reactor's
\* fair polling, with the reporter releasing the lock, again and again the
\* queue is empty or a Sample is merged, a full queue (to which nothing can
\* be sent) gets shorter, and once no Sender is left the queue is emptied.
C32_SelfWake ==
    /\ [][(aggPc = "polling" /\ aggPc' = "idle" /\ merged = max_batch_size)
             => woken']_vars
    /\ ([]<>(queue = << >>) \/ []<><<AggMerge>>_vars)
    /\ (Len(queue) = MaxQueue) ~> (Len(queue) < MaxQueue)
    /\ (queue # << >> /\ Senders(factory, recorders) = 0) ~> (queue = << >>)

\* C32 witness: the Aggregator has yielded after a full batch, was not
\* notified by a send since it was polled, and a Sample is still queued while
\* no Sender is left to send another.
C32_Witness ==
    /\ aggPc = "idle"
    /\ merged = max_batch_size
    /\ woken
    /\ queue # << >>
    /\ Senders(factory, recorders) = 0
    /\ lock = "free"

\* C33: the Aggregator's lock discipline.  The Aggregator holds the lock of
\* the Report exactly while it is in poll; a Sample leaves the queue, and is
\* merged, only in a step that begins and ends with the Aggregator holding
\* the lock; a poll made while the reporter holds the lock returns NotReady
\* with the queue and the Report as they were; and when poll returns, on any
\* path, the lock is free.
C33_LockDiscipline ==
    [][/\ (lock' = "agg") <=> (aggPc' = "polling")
       /\ (queue' # queue /\ Len(queue') <= Len(queue)) =>
              /\ lock = "agg" /\ lock' = "agg"
              /\ chanReport' = Merge(chanReport, Head(queue))
       /\ (chanReport' # chanReport /\ lock # "agg") =>
              lock \in {"reporter", "contended"} /\ queue' = queue
       /\ (lock \in {"reporter", "contended"} /\ woken /\ ~woken') =>
              /\ queue' = queue
              /\ chanReport' = chanReport
              /\ aggPc' = "idle"
       /\ (aggPc = "polling" /\ aggPc' # "polling") => lock' = "free"]_vars

\* C33 witness: the Aggregator was polled while the reporter held the lock,
\* and is parked on the lock with a Sample queued.
C33_Witness ==
    /\ lock = "contended"
    /\ aggPc = "idle"
    /\ ~woken
    /\ queue # << >>

\* seq is a prefix of longer.
IsPrefix(seq, longer) ==
    Len(seq) <= Len(longer) /\ SubSeq(longer, 1, Len(seq)) = seq

ResetStep == printed # << >> /\ printed' = << >>

\* C35: Report::reset empties the gauges and the stats and leaves the
\* counters alone.  The reset step leaves the Report with no gauge, no stat
\* value and the counter it had; the counter of the Report never decreases
\* and never goes away; and a gauge or stat value enters an emptied Report
\* only in a step that merges a queued Sample carrying it.
C35_ResetKeepsCounters ==
    [][/\ ResetStep =>
              /\ chanReport'.g = << >>
              /\ chanReport'.s = << >>
              /\ chanReport'.c = chanReport.c
       /\ chanReport.c # << >> =>
              chanReport'.c # << >> /\ chanReport'.c[1] >= chanReport.c[1]
       /\ (chanReport.g = << >> /\ chanReport'.g # << >>) =>
              /\ queue # << >>
              /\ queue' = Tail(queue)
              /\ chanReport'.g = Head(queue).g
       /\ (chanReport.s = << >> /\ chanReport'.s # << >>) =>
              /\ queue # << >>
              /\ queue' = Tail(queue)
              /\ chanReport'.s = Head(queue).s]_vars

\* C35 witness: a stat value was recorded, merged and reset (it is in no
\* Recorder, not queued and not in the Report), the gauge is back after the
\* reset with a later Sample, and the counter holds every delta.
C35_Witness ==
    /\ sent.adds = MaxRecords
    /\ \A r \in RecorderIds : recorders[r].sample.s = << >>
    /\ StatsIn(queue) = << >>
    /\ chanReport.s = << >>
    /\ ~sent.lost
    /\ chanReport.g # << >>
    /\ chanReport.c = <<MaxCount>>
    /\ printed = << >>

(***************************************************************************)
(* Handles and the registry; stat bounds; peek() and registration.         *)
(***************************************************************************)
\* The map of the registry for handles of `kind`.
MapOfKind(kind) ==
    IF kind = "counter" THEN counters ELSE IF kind = "gauge" THEN gauges ELSE stats

\* C36: live handles always point into the registry.  In every state the
\* registry maps the Key of every Counter, Gauge and Stat handle to the cell
\* of the handle.
C36_Original ==
    \A h \in HandleIds :
        handles[h].kind # "none" =>
            /\ handles[h].key \in MapKeys(MapOfKind(handles[h].kind))
            /\ MapGet(MapOfKind(handles[h].kind), handles[h].key) = handles[h].cell

\* C37: re-registering a stat ignores the new bounds.  stat_with_bounds on a
\* Key that has a stat cell returns a handle to that cell whatever the
\* bounds are, valid or not: it does not panic, adds no entry, and leaves the
\* cell (its histogram, its sum and the limit it was created with) as it was.
C37_ReRegisterIgnoresBounds ==
    [][\A h \in HandleIds, b \in BoundsPairs :
          (/\ KeyNew("x", scopes[1]) \in MapKeys(stats)
           /\ ScopeStatWithBounds(1, "x", h, b[1], b[2])) =>
              /\ panicked' = panicked
              /\ handles'[h].kind = "stat"
              /\ handles'[h].key = KeyNew("x", scopes[1])
              /\ heap'[handles'[h].cell] = heap[MapGet(stats, KeyNew("x", scopes[1]))]
              /\ MapGet(stats', handles'[h].key) = handles'[h].cell
              /\ Len(stats') = Len(stats)]_vars

\* C37 witness: a stat that holds a value was registered again with bounds
\* that a first registration refuses, and the two handles share the cell.
C37_Witness ==
    /\ handles[1].kind = "stat"
    /\ handles[2].kind = "stat"
    /\ handles[1].bounds = << >>
    /\ handles[2].bounds = <<0, 0>>
    /\ handles[1].cell = handles[2].cell
    /\ heap[handles[1].cell].histogram # << >>
    /\ ~panicked

\* C38: a live peek() view blocks registration, but not for ever.  While a
\* view is alive no call of Scope::counter, gauge or stat can complete; when
\* none is alive the call can complete (given a handle slot for its result);
\* the view can always be dropped, and nothing but the drop of the view ends
\* the blockage -- so that a thread that makes the call while it holds the
\* view itself, and cannot drop it before the call returns, is deadlocked.
C38_PeekBlocksRegistration ==
    /\ [](views > 0 =>
            /\ \A h \in HandleIds :
                   /\ ~ENABLED ScopeCounter(1, "x", h)
                   /\ ~ENABLED ScopeGauge(1, "x", h)
                   /\ ~ENABLED ScopeStat(1, "x", h)
            /\ ENABLED DropView)
    /\ []((views = 0 /\ FreeHandles # {} /\ FreeCells # {}) =>
            /\ ENABLED ScopeCounter(1, "x", NextHandle)
            /\ ENABLED ScopeGauge(1, "x", NextHandle)
            /\ ENABLED ScopeStat(1, "x", NextHandle))
    /\ [][(views > 0 /\ views' = 0) => DropView]_vars

\* C38 witness: a view that shows stat "x" is alive while a handle slot is
\* free and no counter and no gauge is registered: a registration that would
\* insert one waits.
C38_Witness ==
    /\ views > 0
    /\ Len(view.stats) = 1
    /\ handles[1].kind = "stat"
    /\ handles[2].kind = "none"
    /\ counters = << >>
    /\ gauges = << >>

(***************************************************************************)
(* The synchronous store and the timing conversions.                       *)
(***************************************************************************)
\* C39: report_gauge(g) records g.value under g.name in gauge_store, leaves
\* counter_store and timer_store as they were and returns a Gauge of the same
\* name with value 0; report_counter(c) adds c.value to counter_store[c.name]
\* (from 0 when the name is new) and returns a Counter of the same name with
\* value 0.
C39_Original ==
    [][/\ MetricsReportGauge =>
              /\ legacy.gauge.name \in DOMAIN legacy'.gauge_store
              /\ legacy'.gauge_store[legacy.gauge.name] = legacy.gauge.value
              /\ legacy'.counter_store = legacy.counter_store
              /\ legacy'.timer_store = legacy.timer_store
              /\ legacy'.gauge = [name |-> legacy.gauge.name, value |-> 0]
       /\ MetricsReportCounter =>
              /\ legacy'.counter_store[legacy.counter.name] =
                     (IF legacy.counter.name \in DOMAIN legacy.counter_store
                      THEN legacy.counter_store[legacy.counter.name]
                      ELSE 0) + legacy.counter.value
              /\ legacy'.counter = [name |-> legacy.counter.name, value |-> 0]]_vars

\* C40: the timing conversions truncate.  For every Duration of secs whole
\* seconds and nanos nanoseconds, elapsed_us() returns
\* secs * 1_000_000 + floor(nanos / 1_000) and elapsed_ms() returns
\* secs * 1_000 + floor(nanos / 1_000_000).
C40_Original ==
    /\ timing.us # << >> =>
           /\ ~timing.us[1].panic
           /\ timing.us[1].value = timing.secs * UsPerSec + timing.nanos \div NanosPerUs
    /\ timing.ms # << >> =>
           /\ ~timing.ms[1].panic
           /\ timing.ms[1].value = timing.secs * MsPerSec + timing.nanos \div NanosPerMs

\* What a conversion may return for the mathematical value v.
Converted(result, v) ==
    IF v < TimingModulus
    THEN result = <<[panic |-> FALSE, value |-> v]>>
    ELSE result[1].panic \/ result[1].value = v % TimingModulus

\* C40, amended: the timing conversions truncate as long as the result fits
\* the word.  For a Duration of secs whole seconds and nanos nanoseconds,
\* elapsed_us() returns secs * 1_000_000 + floor(nanos / 1_000) when that
\* number is below 2^64 and elapsed_ms() returns
\* secs * 1_000 + floor(nanos / 1_000_000) when that number is; a number that
\* is not makes the conversion panic or return it modulo 2^64.
C40_Truncates ==
    /\ timing.us # << >> =>
           Converted(timing.us, timing.secs * UsPerSec + timing.nanos \div NanosPerUs)
    /\ timing.ms # << >> =>
           Converted(timing.ms, timing.secs * MsPerSec + timing.nanos \div NanosPerMs)

\* C40 witness: the Duration of test_conversions, 54 s and 321_987_600 ns,
\* converted to 54_321_987 us and to 54_321 ms.
C40_Witness ==
    /\ timing.secs = 54
    /\ timing.nanos = 321987600
    /\ timing.us = <<[panic |-> FALSE, value |-> 54321987]>>
    /\ timing.ms = <<[panic |-> FALSE, value |-> 54321]>>
====
